---- MODULE Spec2Model ----
(***************************************************************************)
(* Model of the RTSP ingestion subsystem of the cement-tracking backend:   *)
(*   - StreamPipeline          (camera/stream_pipeline.py)                 *)
(*   - AdvancedRTSPProcessor   (camera/advanced_rtsp_processor.py)         *)
(*   - CameraMonitor           (camera/camera_monitor.py)                  *)
(* Each component has its own variables and its own specification; a       *)
(* specification leaves the variables of the other components unchanged.   *)
(***************************************************************************)
EXTENDS Integers, Sequences, FiniteSets, TLC

(***************************************************************************)
(* Bounds of the model.                                                    *)
(***************************************************************************)
\* number of process_frame calls made on the running pipeline
MaxFrames == 3
\* largest max_queue_size a pipeline is constructed with
MaxQueue == 2
MaxStages == 3

\* the stages registered with add_stage, in registration order
Stages == 1..2
\* the calls of start() that start workers, in order
Gens == 1..2
\* worker slots per stage (PipelineStageConfig.workers is 1 or 2)
WorkerSlots == 1..2

NoFrame == 0

\* the runs of one processor: the operator calls start() at most twice
Runs == 1..2

\* largest reconnect_attempts a processor is constructed with
MaxReconnect == 2
\* largest buffer_size a processor is constructed with
MaxBuffer == 1
\* number of open attempts all capture threads of a processor make
MaxOpens == 3
\* number of frames cap.read() yields to the capture threads of a processor
MaxReads == 2

(***************************************************************************)
(* StreamPipeline state.                                                   *)
(***************************************************************************)
VARIABLES
    p_workers,      \* stages[name].workers, per stage
    p_cap,          \* max_queue_size of every queue of the pipeline
    p_adaptive,     \* adaptive_buffering
    p_offer,        \* the environment: how many frames the caller submits
    p_runs,         \* the environment: how many times the operator starts it
    p_stages,       \* len(self.stages)
    p_stop,         \* position of stop()
    p_running,      \* is_running
    p_inq,          \* input_queue
    p_sq,           \* stage_queues, per stage
    p_outq,         \* output_queue
    p_processed,    \* stats.processed_frames
    p_dropped,      \* stats.dropped_frames
    p_ipc,          \* _input_worker: position, per start()
    p_iframe,       \* _input_worker: frame_data, per start()
    p_wpc,          \* _stage_worker: position, per <<stage, worker_id>>
    p_wframe,       \* _stage_worker: frame_data / processed_frame
    p_calls,        \* history: process_frame calls made while running
    p_accepted,     \* history: frames process_frame returned True for
    p_results,      \* history: frames get_result returned
    p_dequeued,     \* history: frames each stage took from its queue
    p_raised,       \* history: invocations of each stage function that raised
    p_stagedrops,   \* history: increments of dropped_frames made by each stage
    p_passed,       \* history: per frame, the stage functions called with it
    p_evicted       \* history: <<stage, frame removed, frame it made room for>>

pvars == <<p_workers, p_cap, p_adaptive, p_offer, p_runs, p_stages, p_stop, p_running, p_inq, p_sq, p_outq,
           p_processed, p_dropped, p_ipc, p_iframe, p_wpc, p_wframe,
           p_calls, p_accepted, p_results, p_dequeued, p_raised, p_stagedrops,
           p_passed, p_evicted>>

(***************************************************************************)
(* AdvancedRTSPProcessor state.  A capture thread and a processing thread  *)
(* are created by every start() that finds the processor stopped; run g is *)
(* the g-th such start.                                                    *)
(***************************************************************************)
VARIABLES
    a_limit,        \* the environment of a run of the model: how many start()
                    \* calls, open attempts and frames it offers
    a_attempts,     \* reconnect_attempts
    a_buffer,       \* buffer_size
    a_running,      \* is_running
    a_error,        \* error
    a_frame_count,  \* frame_count
    a_dropped,      \* dropped_frames
    a_reconnects,   \* reconnect_count
    a_fq,           \* frame_queue
    a_pq,           \* processed_frame_queue
    a_run,          \* runs started so far; capture_thread is that of run a_run
    a_cpc,          \* _capture_thread_func: position, per run
    a_retry,        \* _capture_thread_func: retry_count
    a_fidx,         \* _capture_thread_func: frame_index
    a_cap,          \* _capture_thread_func: cap is an opened, unreleased capture
    a_ppc,          \* _processing_thread_func: position, per run
    a_pframe,       \* _processing_thread_func: frame_data
    a_stop,         \* stop(): position of the caller inside it
    a_open,         \* connection handles opened and not released
    a_starts,       \* history: calls of start()
    a_opens,        \* history: open attempts
    a_streak,       \* history: consecutive failed open attempts, per run
    a_reads,        \* history: frames read
    a_delivered,    \* history: frames returned by get_frame / get_frame_data
    a_enq           \* history: frame_index of the frames enqueued since start()

avars == <<a_limit, a_attempts, a_buffer, a_running, a_error, a_frame_count, a_dropped,
           a_reconnects, a_fq, a_pq, a_run, a_cpc, a_retry, a_fidx, a_cap,
           a_ppc, a_pframe, a_stop, a_open, a_starts, a_opens, a_streak,
           a_reads, a_delivered, a_enq>>

(***************************************************************************)
(* CameraMonitor (src/camera/camera_monitor.py).  The five registry maps    *)
(* hold, per camera id, the number of the instance made by the n-th         *)
(* start_camera(id) that got as far as creating its stop event; 0 is "no    *)
(* entry".  Objects outlive their map entries: a thread, its event and its  *)
(* processor stay in m_tpc, m_evset, m_prun after stop_camera deleted the   *)
(* entries.                                                                 *)
(***************************************************************************)
Cameras == 1..2
MaxInstances == 2
MaxCalls == 3
MaxPulls == 1
Instances == 1..MaxInstances
NoInstance == 0

VARIABLES
    m_exists,       \* Camera.objects.get(id=camera_id) finds a row
    m_db,           \* Camera.status of the row
    m_procs,        \* active_processors
    m_pipes,        \* active_pipelines
    m_threads,      \* camera_threads
    m_events,       \* stop_events
    m_status,       \* camera_status: the 'status' and 'error' fields
    m_evset,        \* threading.Event.is_set() of each stop event
    m_prun,         \* each processor made: "none", "running", "stopped"
    m_plrun,        \* each pipeline made: "none", "running", "stopped"
    m_perr,         \* each processor's get_status()['error'] is set
    m_tpc,          \* position of each _camera_monitoring_thread
    m_tref,         \* the local `processor` of each thread (0: not read yet)
    m_next,         \* instances made so far, per camera
    m_made,         \* history: calls and constructions since the last stop
    m_calls,        \* history: calls of the monitor's methods so far
    m_ret,          \* history: the last call and what it returned
    m_last,         \* history: the call before it
    m_order,        \* history: what the last stop_camera did, in order
    m_count,        \* camera_status[c]: frames_processed and frames_dropped
    m_pulled,       \* history: frames thread n of camera c got from its source
    m_frames,       \* environment: frames the sources of camera c deliver in all
    m_limit         \* environment: calls of the monitor's methods made in all

mvars == <<m_exists, m_db, m_procs, m_pipes, m_threads, m_events, m_status,
           m_evset, m_prun, m_plrun, m_perr, m_tpc, m_tref, m_next, m_made,
           m_calls, m_ret, m_last, m_order,
           m_count, m_pulled, m_frames, m_limit>>

(***************************************************************************)
(* RTSPStream (src/camera/rtsp_proxy.py): one stream object, from the end   *)
(* of its constructor on.                                                   *)
(***************************************************************************)
MaxConnects == 2
Connections == 1..MaxConnects

VARIABLES
    r_active,       \* is_active
    r_stopping,     \* stopping
    r_cap,          \* self.cap is an opened capture
    r_last,         \* last_frame is not None
    r_cpc,          \* position of the connection thread
    r_fpc,          \* position of the frame thread each connection started
    r_gpc,          \* position of a get_frame caller; it holds frame_lock
    r_opc,          \* position of the operator's stop()
    r_connects      \* connection threads started so far

rvars == <<r_active, r_stopping, r_cap, r_last, r_cpc, r_fpc, r_gpc, r_opc,
           r_connects>>

(***************************************************************************)
(* hikvision_stream.AdvancedRTSPProcessor (src/camera/hikvision_stream.py): *)
(* one processor and the one background thread its start() creates.        *)
(***************************************************************************)
MaxLosses == 2

VARIABLES
    h_attempts,         \* reconnect_attempts
    h_running,          \* running
    h_stop_event,       \* stop_event is set
    h_error,            \* error
    h_cap,              \* cap: None, an opened capture, or one that is not opened
    h_last,             \* last_frame is not None
    h_tpc,              \* _process_frames: position
    h_reconnect_count,  \* _process_frames: reconnect_count
    h_spc,              \* stop(): position of the caller inside it
    h_streak,           \* history: consecutive reconnections that did not open
    h_losses            \* history: times the opened stream was lost

hvars == <<h_attempts, h_running, h_stop_event, h_error, h_cap, h_last, h_tpc,
           h_reconnect_count, h_spc, h_streak, h_losses>>

(***************************************************************************)
(* RTSPStreamManager (src/camera/rtsp_proxy.py): the entry of one camera   *)
(* id in self.streams and the RTSPStream objects made for it.              *)
(***************************************************************************)
MaxStreams == 3
StreamIds == 1..MaxStreams
NoStream == 0

VARIABLES
    g_streams,      \* self.streams[str(camera_id)] (NoStream: no entry)
    g_made,         \* RTSPStream objects made so far
    g_pc,           \* each stream: its connection and capture threads
    g_active,       \* each stream: is_active
    g_cap,          \* each stream: self.cap is an opened capture
    g_stopped       \* each stream: stop() was called on it (not by _reconnect)

gvars == <<g_streams, g_made, g_pc, g_active, g_cap, g_stopped>>

(***************************************************************************)
(* rtsp_api.py: the entry of one key in active_processors, the RTSPStream  *)
(* objects made for it and the calls that work on the entry.               *)
(***************************************************************************)
MaxProcessors == 2
ProcessorIds == 1..MaxProcessors
Callers == 1..2
NoProcessor == 0
\* the keywords of the `resolution` parameter (rtsp_api.py:46-51, 365)
Resolutions == {"low", "medium", "high"}
\* get_or_create_processor: key = f"{rtsp_url}_{resolution}", for the one url
ProcessorKey(resolution) == <<"url", resolution>>
\* stop_advanced_processor: key = f"{rtsp_url}_medium"
StopKey(resolution) == ProcessorKey("medium")

VARIABLES
    k_entry,        \* active_processors[key] (NoProcessor: no entry)
    k_made,         \* RTSPStream objects made so far
    k_running,      \* each stream: running
    k_thread,       \* each stream: its capture thread is alive
    k_cpc,          \* get_or_create_processor: position of each caller
    k_cproc,        \* get_or_create_processor: the local `processor`
    k_ret,          \* history: what each call returned
    k_clean,        \* cleanup_processors: position
    k_res,          \* the resolution the callers pass with the url
    k_stop          \* history: what the last stop request answered

kvars == <<k_entry, k_made, k_running, k_thread, k_cpc, k_cproc, k_ret, k_clean,
           k_res, k_stop>>

vars == <<pvars, avars, mvars, rvars, hvars, gvars, kvars>>

\* what a step of one component leaves alone
NotPipeline == <<avars, mvars, rvars, hvars, gvars, kvars>>
NotProcessor == <<pvars, mvars, rvars, hvars, gvars, kvars>>
NotMonitor == <<pvars, avars, rvars, hvars, gvars, kvars>>
NotStream == <<pvars, avars, mvars, hvars, gvars, kvars>>
NotHikvision == <<pvars, avars, mvars, rvars, gvars, kvars>>
NotManager == <<pvars, avars, mvars, rvars, hvars, kvars>>
NotApi == <<pvars, avars, mvars, rvars, hvars, gvars>>

(***************************************************************************)
(* queue.Queue with maxsize > 0.                                           *)
(***************************************************************************)
\* mutant: a queue without a capacity
QFullNever(q, cap) == FALSE
QFull(q, cap) == Len(q) >= cap
\* mutant: a LIFO queue
QPutFront(q, f) == <<f>> \o q
QPut(q, f) == Append(q, f)
QFront(q) == Head(q)
\* mutant: a get that leaves the oldest frame and removes the newest
QDropNewest(q) == SubSeq(q, 1, Len(q) - 1)
QRest(q) == Tail(q)

Slots == Stages \X WorkerSlots
LastStage == CHOOSE s \in Stages : \A t \in Stages : t <= s
Spawned(w) == w[2] <= p_workers[w[1]]

\* the queue a worker of stage s publishes into
OutQueue(s) == IF s = LastStage THEN p_outq ELSE p_sq[s + 1]

\* the queues after `q` has replaced the queue stage s publishes into
SetOut(s, q) ==
    IF s = LastStage
    THEN p_outq' = q /\ p_sq' = p_sq
    ELSE p_outq' = p_outq /\ p_sq' = [p_sq EXCEPT ![s + 1] = q]

PInit ==
    /\ p_workers \in [Stages -> WorkerSlots]
    /\ p_cap \in 1..MaxQueue
    /\ p_adaptive \in BOOLEAN
    /\ p_offer \in 0..MaxFrames
    /\ p_runs \in {0} \cup Gens
    /\ p_stages = Cardinality(Stages)
    /\ p_stop = "idle"
    /\ p_running = FALSE
    /\ p_inq = <<>>
    /\ p_sq = [s \in Stages |-> <<>>]
    /\ p_outq = <<>>
    /\ p_processed = 0
    /\ p_dropped = 0
    /\ p_ipc = [g \in Gens |-> "none"]
    /\ p_iframe = [g \in Gens |-> NoFrame]
    /\ p_wpc = [w \in Slots |-> "none"]
    /\ p_wframe = [w \in Slots |-> NoFrame]
    /\ p_calls = 0
    /\ p_accepted = <<>>
    /\ p_results = <<>>
    /\ p_dequeued = [s \in Stages |-> 0]
    /\ p_raised = [s \in Stages |-> 0]
    /\ p_stagedrops = [s \in Stages |-> 0]
    /\ p_passed = [f \in 1..MaxFrames |-> <<>>]
    /\ p_evicted = {}

PHist == <<p_calls, p_accepted, p_results, p_dequeued, p_raised, p_stagedrops,
          p_passed, p_evicted>>

\* stage_config.func of stage s was called with the frame worker w holds
Called(w, outcome) ==
    p_passed' = [p_passed EXCEPT ![p_wframe[w]] = Append(@, <<w[1], outcome>>)]
PConfig == <<p_workers, p_cap, p_adaptive, p_offer, p_runs, p_stages>>

\* the calls of start() that went on to start workers
Gen == Cardinality({g \in Gens : p_ipc[g] # "none"})

\* StreamPipeline.start: sets the flag, clears the queues, starts the input
\* worker and stage_config.workers workers per stage.
PStart ==
    /\ p_stop = "idle"
    /\ Gen < p_runs
    /\ ~p_running
    /\ p_running' = TRUE
    /\ p_inq' = <<>>
    /\ p_sq' = [s \in Stages |-> <<>>]
    /\ p_outq' = <<>>
    /\ p_ipc' = [p_ipc EXCEPT ![Gen + 1] = "idle"]
    /\ p_wpc' = [w \in Slots |-> IF Spawned(w) THEN "idle" ELSE "none"]
    /\ UNCHANGED <<PConfig, p_stop, p_processed, p_dropped, p_iframe, p_wframe, PHist>>
    /\ UNCHANGED NotPipeline

\* StreamPipeline.process_frame(frame_data), the caller numbering its frames
\* 1, 2, ... in submission order.
ProcessFrame ==
    /\ p_calls < p_offer
    /\ \/ /\ ~p_running
          /\ UNCHANGED pvars
       \/ /\ p_running
          /\ p_calls' = p_calls + 1
          /\ IF QFull(p_inq, p_cap)
             THEN /\ p_dropped' = p_dropped + 1
                  /\ UNCHANGED <<p_inq, p_accepted>>
             ELSE /\ p_inq' = QPut(p_inq, p_calls + 1)
                  /\ p_accepted' = Append(p_accepted, p_calls + 1)
                  /\ UNCHANGED p_dropped
          /\ UNCHANGED <<PConfig, p_stop, p_running, p_sq, p_outq, p_processed, p_ipc,
                         p_iframe, p_wpc, p_wframe, p_results, p_dequeued,
                         p_raised, p_stagedrops>>
    /\ UNCHANGED <<p_passed, p_evicted>>
    /\ UNCHANGED NotPipeline

\* StreamPipeline.get_result: takes the oldest frame of the output queue and
\* counts it as processed; returns None when stopped or when nothing arrives.
GetResult ==
    /\ p_running
    /\ p_outq # <<>>
    /\ p_results' = Append(p_results, QFront(p_outq))
    /\ p_outq' = QRest(p_outq)
    /\ p_processed' = p_processed + 1
    /\ UNCHANGED <<PConfig, p_stop, p_running, p_inq, p_sq, p_dropped, p_ipc, p_iframe,
                   p_wpc, p_wframe, p_calls, p_accepted, p_dequeued, p_raised,
                   p_stagedrops>>
    /\ UNCHANGED <<p_passed, p_evicted>>
    /\ UNCHANGED NotPipeline

\* _input_worker: input_queue.get
InputGet(g) ==
    /\ p_running
    /\ p_ipc[g] = "idle"
    /\ p_inq # <<>>
    /\ p_iframe' = [p_iframe EXCEPT ![g] = QFront(p_inq)]
    /\ p_inq' = QRest(p_inq)
    /\ p_ipc' = [p_ipc EXCEPT ![g] = "have"]
    /\ UNCHANGED <<PConfig, p_stop, p_running, p_sq, p_outq, p_processed, p_dropped,
                   p_wpc, p_wframe, PHist>>
    /\ UNCHANGED NotPipeline

\* _input_worker: put into the first stage's queue, drop if full
InputPut(g) ==
    /\ p_ipc[g] = "have"
    /\ IF QFull(p_sq[1], p_cap)
       THEN /\ p_dropped' = p_dropped + 1
            /\ UNCHANGED p_sq
       ELSE /\ p_sq' = [p_sq EXCEPT ![1] = QPut(p_sq[1], p_iframe[g])]
            /\ UNCHANGED p_dropped
    /\ p_ipc' = [p_ipc EXCEPT ![g] = "idle"]
    /\ p_iframe' = [p_iframe EXCEPT ![g] = NoFrame]
    /\ UNCHANGED <<PConfig, p_stop, p_running, p_inq, p_outq, p_processed, p_wpc,
                   p_wframe, PHist>>
    /\ UNCHANGED NotPipeline

\* the spawned workers of stage s that are still in their loop
LiveWorkers(s) ==
    Cardinality({k \in WorkerSlots : p_wpc[<<s, k>>] \notin {"none", "dead"}})

WorkerOther == <<PConfig, p_stop, p_running, p_inq, p_processed, p_ipc, p_iframe,
                 p_calls, p_accepted, p_results>>

\* mutant: the worker reads the oldest frame and leaves it in the queue
WGetPeek(w) ==
    /\ p_running
    /\ p_wpc[w] = "idle"
    /\ p_sq[w[1]] # <<>>
    /\ p_wframe' = [p_wframe EXCEPT ![w] = QFront(p_sq[w[1]])]
    /\ p_wpc' = [p_wpc EXCEPT ![w] = "have"]
    /\ p_dequeued' = [p_dequeued EXCEPT ![w[1]] = @ + 1]
    /\ UNCHANGED <<WorkerOther, p_sq, p_outq, p_dropped, p_raised, p_stagedrops>>
    /\ UNCHANGED <<p_passed, p_evicted>>
    /\ UNCHANGED NotPipeline

\* _stage_worker: input_queue.get(timeout)
WGet(w) ==
    /\ p_running
    /\ p_wpc[w] = "idle"
    /\ p_sq[w[1]] # <<>>
    /\ p_wframe' = [p_wframe EXCEPT ![w] = QFront(p_sq[w[1]])]
    /\ p_sq' = [p_sq EXCEPT ![w[1]] = QRest(p_sq[w[1]])]
    /\ p_wpc' = [p_wpc EXCEPT ![w] = "have"]
    /\ p_dequeued' = [p_dequeued EXCEPT ![w[1]] = @ + 1]
    /\ UNCHANGED <<WorkerOther, p_outq, p_dropped, p_raised, p_stagedrops>>
    /\ UNCHANGED <<p_passed, p_evicted>>
    /\ UNCHANGED NotPipeline

\* _stage_worker: stage_config.func returned the frame; put it into the output
\* queue without blocking; on queue.Full count a drop and, with adaptive
\* buffering, go on to replace the oldest queued frame.
WReturn(w) ==
    /\ p_wpc[w] = "have"
    /\ IF QFull(OutQueue(w[1]), p_cap)
       THEN /\ p_dropped' = p_dropped + 1
            /\ p_stagedrops' = [p_stagedrops EXCEPT ![w[1]] = @ + 1]
            /\ p_wpc' = [p_wpc EXCEPT ![w] = IF p_adaptive THEN "adapt_get" ELSE "idle"]
            /\ p_wframe' = [p_wframe EXCEPT ![w] = IF p_adaptive THEN @ ELSE NoFrame]
            /\ UNCHANGED <<p_sq, p_outq>>
       ELSE /\ SetOut(w[1], QPut(OutQueue(w[1]), p_wframe[w]))
            /\ p_wpc' = [p_wpc EXCEPT ![w] = "idle"]
            /\ p_wframe' = [p_wframe EXCEPT ![w] = NoFrame]
            /\ UNCHANGED <<p_dropped, p_stagedrops>>
    /\ UNCHANGED <<WorkerOther, p_dequeued, p_raised>>
    /\ Called(w, "ok")
    /\ UNCHANGED p_evicted
    /\ UNCHANGED NotPipeline

\* _stage_worker: stage_config.func returned None
WNone(w) ==
    /\ p_wpc[w] = "have"
    /\ p_dropped' = p_dropped + 1
    /\ p_stagedrops' = [p_stagedrops EXCEPT ![w[1]] = @ + 1]
    /\ p_wpc' = [p_wpc EXCEPT ![w] = "idle"]
    /\ p_wframe' = [p_wframe EXCEPT ![w] = NoFrame]
    /\ UNCHANGED <<WorkerOther, p_sq, p_outq, p_dequeued, p_raised>>
    /\ Called(w, "none")
    /\ UNCHANGED p_evicted
    /\ UNCHANGED NotPipeline

\* mutant: the exception leaves the loop and ends the worker
WRaiseEndsWorker(w) ==
    /\ p_wpc[w] = "have"
    /\ p_dropped' = p_dropped + 1
    /\ p_stagedrops' = [p_stagedrops EXCEPT ![w[1]] = @ + 1]
    /\ p_raised' = [p_raised EXCEPT ![w[1]] = @ + 1]
    /\ p_wpc' = [p_wpc EXCEPT ![w] = "dead"]
    /\ p_wframe' = [p_wframe EXCEPT ![w] = NoFrame]
    /\ UNCHANGED <<WorkerOther, p_sq, p_outq, p_dequeued>>
    /\ Called(w, "raised")
    /\ UNCHANGED p_evicted
    /\ UNCHANGED NotPipeline

\* _stage_worker: stage_config.func raised; the inner handler counts the drop
\* and the loop goes on
WRaise(w) ==
    /\ p_wpc[w] = "have"
    /\ p_dropped' = p_dropped + 1
    /\ p_stagedrops' = [p_stagedrops EXCEPT ![w[1]] = @ + 1]
    /\ p_raised' = [p_raised EXCEPT ![w[1]] = @ + 1]
    /\ p_wpc' = [p_wpc EXCEPT ![w] = "idle"]
    /\ p_wframe' = [p_wframe EXCEPT ![w] = NoFrame]
    /\ UNCHANGED <<WorkerOther, p_sq, p_outq, p_dequeued>>
    /\ Called(w, "raised")
    /\ UNCHANGED p_evicted
    /\ UNCHANGED NotPipeline

\* _stage_worker, adaptive mode: output_queue.get_nowait() removes the oldest
\* frame; queue.Empty leaves the processed frame dropped
WAdaptGet(w) ==
    /\ p_wpc[w] = "adapt_get"
    /\ IF OutQueue(w[1]) = <<>>
       THEN /\ p_wpc' = [p_wpc EXCEPT ![w] = "idle"]
            /\ UNCHANGED p_evicted
            /\ p_wframe' = [p_wframe EXCEPT ![w] = NoFrame]
            /\ UNCHANGED <<p_sq, p_outq>>
       ELSE /\ SetOut(w[1], QRest(OutQueue(w[1])))
            /\ p_evicted' = p_evicted \cup {<<w[1], QFront(OutQueue(w[1])), p_wframe[w]>>}
            /\ p_wpc' = [p_wpc EXCEPT ![w] = "adapt_put"]
            /\ UNCHANGED p_wframe
    /\ UNCHANGED <<WorkerOther, p_dropped, p_dequeued, p_raised, p_stagedrops>>
    /\ UNCHANGED p_passed
    /\ UNCHANGED NotPipeline

\* _stage_worker, adaptive mode: output_queue.put(processed_frame, block=False);
\* queue.Full is swallowed
WAdaptPut(w) ==
    /\ p_wpc[w] = "adapt_put"
    /\ IF QFull(OutQueue(w[1]), p_cap)
       THEN UNCHANGED <<p_sq, p_outq>>
       ELSE SetOut(w[1], QPut(OutQueue(w[1]), p_wframe[w]))
    /\ p_wpc' = [p_wpc EXCEPT ![w] = "idle"]
    /\ p_wframe' = [p_wframe EXCEPT ![w] = NoFrame]
    /\ UNCHANGED <<WorkerOther, p_dropped, p_dequeued, p_raised, p_stagedrops>>
    /\ UNCHANGED <<p_passed, p_evicted>>
    /\ UNCHANGED NotPipeline

PNext ==
    \/ PStart
    \/ ProcessFrame
    \/ GetResult
    \/ \E g \in Gens : InputGet(g)
    \/ \E g \in Gens : InputPut(g)
    \/ \E w \in Slots : WGet(w)
    \/ \E w \in Slots : WReturn(w)
    \/ \E w \in Slots : WNone(w)
    \/ \E w \in Slots : WRaise(w)
    \/ \E w \in Slots : WAdaptGet(w)
    \/ \E w \in Slots : WAdaptPut(w)

(***************************************************************************)
(* StreamPipeline: stop() and add_stage() after start().                   *)
(***************************************************************************)
PStopOther == <<PConfig, p_inq, p_sq, p_outq, p_processed, p_dropped, p_iframe,
                p_wframe, PHist>>

\* stop(): returns at once when not running; otherwise clears is_running and
\* goes on to join the stage threads
PStop ==
    /\ p_stop = "idle"
    /\ p_running
    /\ p_running' = FALSE
    /\ p_stop' = "joining"
    /\ UNCHANGED <<PStopOther, p_ipc, p_wpc>>
    /\ UNCHANGED NotPipeline

\* _input_worker: `while self.is_running` fails, after input_queue.get timed
\* out or at once
InputExit(g) ==
    /\ p_ipc[g] = "idle"
    /\ ~p_running
    /\ p_ipc' = [p_ipc EXCEPT ![g] = "ended"]
    /\ UNCHANGED <<PStopOther, p_stop, p_running, p_wpc>>
    /\ UNCHANGED NotPipeline

\* mutant: a stage worker whose loop does not test is_running
WExitNever(w) ==
    /\ p_wpc[w] = "idle"
    /\ ~p_running
    /\ UNCHANGED vars

\* _stage_worker: `while self.is_running` fails
WExit(w) ==
    /\ p_wpc[w] = "idle"
    /\ ~p_running
    /\ p_wpc' = [p_wpc EXCEPT ![w] = "ended"]
    /\ UNCHANGED <<PStopOther, p_stop, p_running, p_ipc>>
    /\ UNCHANGED NotPipeline

\* stop(): every thread in stage_threads was joined, thread.join(timeout=3.0)
\* outlasting a stage function that returns and a get that times out
PStopReturn ==
    /\ p_stop = "joining"
    /\ \A w \in Slots : Spawned(w) => p_wpc[w] = "ended"
    /\ p_stop' = "idle"
    /\ UNCHANGED <<PStopOther, p_running, p_ipc, p_wpc>>
    /\ UNCHANGED NotPipeline

\* add_stage(name, func, ...) once the pipeline was started: the stage and
\* its queue are added to self.stages and self.stage_queues
AddStage ==
    /\ Gen > 0
    /\ p_stages < MaxStages
    /\ p_stages' = p_stages + 1
    /\ UNCHANGED <<p_workers, p_cap, p_adaptive, p_offer, p_runs, p_stop,
                   p_running, p_inq, p_sq, p_outq, p_processed, p_dropped, p_ipc, p_iframe,
                   p_wpc, p_wframe, PHist>>
    /\ UNCHANGED NotPipeline

PLifeNext ==
    \/ PNext
    \/ PStop
    \/ \E g \in Gens : InputExit(g)
    \/ \E w \in Slots : WExit(w)
    \/ PStopReturn
    \/ AddStage


(***************************************************************************)
(* Properties of StreamPipeline.                                           *)
(***************************************************************************)
RECURSIVE IsSubseq(_, _)
\* a is an order-preserving subsequence of b
IsSubseq(a, b) ==
    IF a = <<>> THEN TRUE
    ELSE IF b = <<>> THEN FALSE
    ELSE IF Head(a) = Head(b) THEN IsSubseq(Tail(a), Tail(b))
    ELSE IsSubseq(a, Tail(b))

Range(q) == {q[i] : i \in 1..Len(q)}
NoRepeats(q) == \A i, j \in 1..Len(q) : i # j => q[i] # q[j]

SingleWorker == \A s \in Stages : p_workers[s] = 1
MultiWorker == \E s \in Stages : p_workers[s] > 1

\* the workers of stage s that hold a frame
Holding(s) ==
    Cardinality({k \in WorkerSlots :
                    p_wpc[<<s, k>>] \in {"have", "adapt_get", "adapt_put"}})

\* every queue is empty and no worker holds a frame
Quiescent ==
    /\ p_running
    /\ p_inq = <<>>
    /\ \A s \in Stages : p_sq[s] = <<>> /\ Holding(s) = 0
    /\ p_outq = <<>>
    /\ \A g \in Gens : p_ipc[g] # "have"

\* C1: when every stage has exactly one worker, the frames get_result has
\* returned are an order-preserving subsequence of the frames process_frame
\* accepted, and are all of them once the pipeline has drained without a drop.
C1_OrderPreserved ==
    SingleWorker =>
        /\ IsSubseq(p_results, p_accepted)
        /\ (Quiescent /\ p_dropped = 0 => p_results = p_accepted)

\* three frames went through a single-worker pipeline and one was dropped on
\* the way
C1_Witness ==
    /\ SingleWorker
    /\ Quiescent
    /\ Len(p_accepted) >= 3
    /\ Len(p_results) = 2

\* C2: with a stage of more than one worker, every frame get_result returned
\* was accepted by process_frame before, and none is returned twice.
C2_NoDuplicates ==
    MultiWorker =>
        /\ Range(p_results) \subseteq Range(p_accepted)
        /\ NoRepeats(p_results)

\* a multi-worker pipeline returned two frames out of submission order
C2_Witness ==
    /\ MultiWorker
    /\ Len(p_results) >= 2
    /\ p_results[1] > p_results[2]

\* C3: once the pipeline has drained, processed_frames + dropped_frames
\* equals the number of process_frame calls.
C3_AccountingBalance ==
    Quiescent => p_processed + p_dropped = p_calls

\* C4: a stage function that raises costs exactly one drop, forwards nothing
\* and leaves the worker in its loop, ready to dequeue again; the number of
\* live workers of every stage stays the configured one; and a stage whose
\* every finished invocation raised has recorded as many drops as it has
\* finished frames.
C4_RaiseStep ==
    \A s \in Stages :
        p_raised'[s] = p_raised[s] + 1 =>
            /\ p_dropped' = p_dropped + 1
            /\ p_stagedrops'[s] = p_stagedrops[s] + 1
            /\ p_sq' = p_sq
            /\ p_outq' = p_outq
            /\ \E w \in Slots :
                  w[1] = s /\ p_wpc[w] = "have" /\ p_wpc'[w] = "idle"

C4_Workers ==
    \A s \in Stages :
        /\ p_running => LiveWorkers(s) = p_workers[s]
        /\ p_raised[s] = p_dequeued[s] - Holding(s) =>
              p_stagedrops[s] = p_raised[s]

C4_ErrorIsolation == [][C4_RaiseStep]_vars /\ []C4_Workers

\* the only worker of the first stage raised twice: it dequeued again after
\* the first exception
C4_Witness ==
    /\ p_workers[1] = 1
    /\ p_raised[1] >= 2
    /\ p_raised[1] = p_dequeued[1]

\* C16: when stop() returns, the input worker and every stage worker that
\* start() launched have terminated.
C16_ReturnStep ==
    (p_stop = "joining" /\ p_stop' = "idle") =>
        /\ \A g \in Gens : p_ipc'[g] \in {"none", "ended"}
        /\ \A w \in Slots : Spawned(w) => p_wpc'[w] = "ended"
C16_StopJoinsAll == [][C16_ReturnStep]_vars

\* C20: while the pipeline runs, add_stage changes nothing: the stage set is
\* the one start() found.
C20_RunningStep == p_running => p_stages' = p_stages
C20_AddStageRejected == [][C20_RunningStep]_vars

\* the last frame of queue q is f
C32_Newest(q, f) == q # <<>> /\ q[Len(q)] = f

\* a stage worker whose function returned a frame finds the downstream queue
\* full: one drop is counted and the queue stays; without adaptive buffering
\* the frame is discarded
C32_FullStep(w) ==
    (/\ p_wpc[w] = "have" /\ p_wpc'[w] # "have"
     /\ p_passed'[p_wframe[w]] = Append(p_passed[p_wframe[w]], <<w[1], "ok">>)
     /\ QFull(OutQueue(w[1]), p_cap))
        => /\ p_dropped' = p_dropped + 1
           /\ UNCHANGED <<p_sq, p_outq>>
           /\ IF p_adaptive
              THEN p_wpc'[w] = "adapt_get" /\ p_wframe'[w] = p_wframe[w]
              ELSE p_wpc'[w] = "idle" /\ p_wframe'[w] = NoFrame

\* the entry points: process_frame at a full input queue and the input worker
\* at a full first stage queue discard the incoming frame
C32_EntryStep ==
    /\ (p_running /\ p_calls' = p_calls + 1 /\ QFull(p_inq, p_cap))
            => p_inq' = p_inq /\ p_dropped' = p_dropped + 1
    /\ \A g \in Gens :
            (p_ipc[g] = "have" /\ p_ipc'[g] # "have" /\ QFull(p_sq[1], p_cap))
                => UNCHANGED <<p_sq, p_outq>> /\ p_dropped' = p_dropped + 1

\* C32 as stated: with adaptive buffering a stage worker that found its
\* downstream queue full leaves its frame as the newest of that queue, in the
\* place of the oldest, one drop counted; without it the frame is discarded
\* and the queue unchanged; the entry points discard the incoming frame.
C32_AlwaysReplaces ==
    [][/\ \A w \in Slots :
            /\ C32_FullStep(w)
            /\ (p_wpc[w] \in {"adapt_get", "adapt_put"} /\ p_wpc'[w] = "idle")
                    => /\ C32_Newest(OutQueue(w[1])', p_wframe[w])
                       /\ \E e \in 1..MaxFrames : <<w[1], e, p_wframe[w]>> \in p_evicted'
       /\ C32_EntryStep]_vars

\* C32, amended: the second attempt of the worker is made without waiting.
\* It removes the oldest frame the downstream queue holds by then, or
\* discards its own frame if a consumer has emptied the queue; it then
\* appends its frame as the newest unless another worker has filled the
\* queue again, in which case the frame is discarded as well.  No step of
\* the second attempt counts a drop.
C32_SecondAttemptStep(w) ==
    /\ (p_wpc[w] = "adapt_get" /\ p_wpc'[w] # "adapt_get")
            => /\ p_dropped' = p_dropped
               /\ IF OutQueue(w[1]) = <<>>
                  THEN /\ UNCHANGED <<p_sq, p_outq>>
                       /\ p_wpc'[w] = "idle" /\ p_wframe'[w] = NoFrame
                  ELSE /\ OutQueue(w[1])' = Tail(OutQueue(w[1]))
                       /\ p_wpc'[w] = "adapt_put" /\ p_wframe'[w] = p_wframe[w]
    /\ (p_wpc[w] = "adapt_put" /\ p_wpc'[w] # "adapt_put")
            => /\ p_dropped' = p_dropped
               /\ p_wpc'[w] = "idle" /\ p_wframe'[w] = NoFrame
               /\ IF Len(OutQueue(w[1])) >= p_cap
                  THEN UNCHANGED <<p_sq, p_outq>>
                  ELSE OutQueue(w[1])' = Append(OutQueue(w[1]), p_wframe[w])
C32_ReplacesUnlessRaced ==
    [][/\ \A w \in Slots : C32_FullStep(w) /\ C32_SecondAttemptStep(w)
       /\ C32_EntryStep]_vars
C32_Witness ==
    \E w \in Slots, e \in 1..MaxFrames, f \in 1..MaxFrames :
        /\ p_adaptive
        /\ p_cap > 1
        /\ <<w[1], e, f>> \in p_evicted
        /\ p_wpc[w] = "idle"
        /\ Len(OutQueue(w[1])) = p_cap
        /\ C32_Newest(OutQueue(w[1]), f)
        /\ \A i \in 1..Len(OutQueue(w[1])) : OutQueue(w[1])[i] # e
        /\ p_dropped = 1

\* C26: every frame get_result returned was passed to the function of every
\* registered stage exactly once, in registration order, each of them
\* returning a frame; and every frame in the queue of a stage was passed so
\* to all the stages before it and to no other.
C26_Through(n) == [i \in 1..n |-> <<i, "ok">>]
C26_ReturnStep ==
    \A f \in 1..MaxFrames :
        p_results' = Append(p_results, f) => p_passed[f] = C26_Through(p_stages)
C26_Queued ==
    \A s \in Stages : \A i \in 1..Len(p_sq[s]) :
        p_passed[p_sq[s][i]] = C26_Through(s - 1)
C26_AllStagesInOrder == []C26_Queued /\ [][C26_ReturnStep]_vars

\* C23: whatever start() and stop() calls were made, at most one input
\* worker is live and every stage has at most its configured number of live
\* workers: no worker of an earlier run runs next to those of the new run.
C23_LiveInputs == {g \in Gens : p_ipc[g] \in {"idle", "have"}}
C23_LiveOfStage(s) ==
    {k \in WorkerSlots : p_wpc[<<s, k>>] \notin {"none", "dead", "ended"}}
C23_OneRunOfWorkers ==
    /\ Cardinality(C23_LiveInputs) <= 1
    /\ \A s \in Stages : Cardinality(C23_LiveOfStage(s)) <= p_workers[s]

(***************************************************************************)
(* AdvancedRTSPProcessor.                                                  *)
(***************************************************************************)
Null == "null"
ErrorText == "error"

AInit ==
    /\ a_limit \in [starts : {0} \cup Runs, opens : 1..MaxOpens, reads : 1..MaxReads]
    /\ a_attempts \in 0..MaxReconnect
    /\ a_buffer \in 1..MaxBuffer
    /\ a_running = FALSE
    /\ a_error = Null
    /\ a_frame_count = 0
    /\ a_dropped = 0
    /\ a_reconnects = 0
    /\ a_fq = <<>>
    /\ a_pq = <<>>
    /\ a_run = 0
    /\ a_cpc = [g \in Runs |-> "none"]
    /\ a_retry = [g \in Runs |-> 0]
    /\ a_fidx = [g \in Runs |-> 0]
    /\ a_cap = [g \in Runs |-> FALSE]
    /\ a_ppc = [g \in Runs |-> "none"]
    /\ a_pframe = [g \in Runs |-> NoFrame]
    /\ a_stop = "idle"
    /\ a_open = 0
    /\ a_starts = 0
    /\ a_opens = 0
    /\ a_streak = [g \in Runs |-> 0]
    /\ a_reads = 0
    /\ a_delivered = 0
    /\ a_enq = <<>>

AConfig == <<a_limit, a_attempts, a_buffer>>
ACounters == <<a_frame_count, a_dropped, a_reconnects>>
AQueues == <<a_fq, a_pq>>
ACapture == <<a_cpc, a_retry, a_fidx, a_cap, a_open, a_opens, a_streak, a_reads,
              a_enq>>
AProcessing == <<a_ppc, a_pframe>>

\* mutant: a start() that resets frame_count whatever is_running says
FrameCountReset == 0

\* start(): frame_count after the call, `self.frame_count = 0` being behind
\* the early return
FrameCountAfterStart == IF a_running THEN a_frame_count ELSE 0

\* start(): returns at once when is_running; otherwise resets error and
\* counters, clears both queues and starts a capture and a processing thread
AStart ==
    /\ a_stop = "idle"
    /\ a_starts < a_limit.starts
    /\ a_starts' = a_starts + 1
    /\ a_frame_count' = FrameCountAfterStart
    /\ IF a_running
       THEN UNCHANGED <<a_running, a_error, a_dropped, a_reconnects, AQueues,
                        a_run, a_cpc, a_ppc, a_delivered, a_enq>>
       ELSE /\ a_running' = TRUE
            /\ a_error' = Null
            /\ a_dropped' = 0
            /\ a_reconnects' = 0
            /\ a_fq' = <<>>
            /\ a_pq' = <<>>
            /\ a_run' = a_run + 1
            /\ a_cpc' = [a_cpc EXCEPT ![a_run + 1] = "loop"]
            /\ a_ppc' = [a_ppc EXCEPT ![a_run + 1] = "check"]
            /\ a_delivered' = 0
            /\ a_enq' = <<>>
    /\ UNCHANGED <<AConfig, a_retry, a_fidx, a_cap, a_pframe, a_stop, a_open,
                   a_opens, a_streak, a_reads>>
    /\ UNCHANGED NotProcessor

\* stop(): returns at once when not running; otherwise clears is_running
AStopBegin ==
    /\ a_stop = "idle"
    /\ IF a_running
       THEN a_running' = FALSE /\ a_stop' = "join_capture"
       ELSE UNCHANGED <<a_running, a_stop>>
    /\ UNCHANGED <<AConfig, a_error, ACounters, AQueues, a_run, ACapture,
                   AProcessing, a_starts, a_delivered>>
    /\ UNCHANGED NotProcessor

\* the calls in which a capture thread can stay longer than a join waits:
\* cv2.VideoCapture(url), cap.read() and time.sleep(reconnect_delay)
CaptureBlocked(g) == a_cpc[g] \in {"opening", "reading", "backoff"}
CaptureOver(g) == a_cpc[g] \in {"ended", "exhausted"}

\* stop(): capture_thread.join(timeout=3.0) returns, the thread having ended
\* or the timeout having passed
AStopJoinCapture ==
    /\ a_stop = "join_capture"
    /\ CaptureOver(a_run) \/ CaptureBlocked(a_run)
    /\ a_stop' = "join_processing"
    /\ UNCHANGED <<AConfig, a_running, a_error, ACounters, AQueues, a_run,
                   ACapture, AProcessing, a_starts, a_delivered>>
    /\ UNCHANGED NotProcessor

\* stop(): processing_thread.join(timeout=3.0) returns (the thread waits at
\* most 1.0 s in frame_queue.get) and stop() returns
AStopReturn ==
    /\ a_stop = "join_processing"
    /\ a_ppc[a_run] = "ended"
    /\ a_stop' = "idle"
    /\ UNCHANGED <<AConfig, a_running, a_error, ACounters, AQueues, a_run,
                   ACapture, AProcessing, a_starts, a_delivered>>
    /\ UNCHANGED NotProcessor

ACaptureOther == <<AConfig, a_running, a_pq, a_run, AProcessing, a_stop,
                   a_starts, a_delivered>>

\* _capture_thread_func: the outer `while self.is_running`; the locals of a
\* thread that returns are gone
ACLoop(g) ==
    /\ a_cpc[g] = "loop"
    /\ IF a_running
       THEN /\ a_opens < a_limit.opens
            /\ a_cpc' = [a_cpc EXCEPT ![g] = "opening"]
            /\ UNCHANGED <<a_retry, a_fidx, a_streak>>
       ELSE /\ a_cpc' = [a_cpc EXCEPT ![g] = "ended"]
            /\ a_retry' = [a_retry EXCEPT ![g] = 0]
            /\ a_fidx' = [a_fidx EXCEPT ![g] = 0]
            /\ a_streak' = [a_streak EXCEPT ![g] = 0]
    /\ UNCHANGED <<ACaptureOther, a_error, ACounters, a_fq, a_cap, a_open,
                   a_opens, a_reads, a_enq>>
    /\ UNCHANGED NotProcessor

\* mutant: the limit is compared with > instead of >=
AfterFailureLate(retry) ==
    IF retry > a_attempts THEN "exhausted" ELSE "backoff"

\* what the except clause of _capture_thread_func does with retry_count:
\* the position after the handler
AfterFailure(retry) ==
    IF retry >= a_attempts THEN "exhausted" ELSE "backoff"

\* _capture_thread_func: _create_capture() returned an opened capture
ACOpenOk(g) ==
    /\ a_cpc[g] = "opening"
    /\ a_cap' = [a_cap EXCEPT ![g] = TRUE]
    /\ a_open' = a_open + 1
    /\ a_retry' = [a_retry EXCEPT ![g] = 0]
    /\ a_streak' = [a_streak EXCEPT ![g] = 0]
    /\ a_opens' = a_opens + 1
    /\ a_cpc' = [a_cpc EXCEPT ![g] = "inner"]
    /\ UNCHANGED <<ACaptureOther, a_error, ACounters, a_fq, a_fidx, a_reads,
                   a_enq>>
    /\ UNCHANGED NotProcessor

\* _capture_thread_func: _create_capture() raised ConnectionError
ACOpenFail(g) ==
    /\ a_cpc[g] = "opening"
    /\ a_error' = ErrorText
    /\ a_reconnects' = a_reconnects + 1
    /\ a_retry' = [a_retry EXCEPT ![g] = @ + 1]
    /\ a_streak' = [a_streak EXCEPT ![g] = @ + 1]
    /\ a_opens' = a_opens + 1
    /\ a_cpc' = [a_cpc EXCEPT ![g] = AfterFailure(a_retry[g] + 1)]
    /\ UNCHANGED <<ACaptureOther, a_frame_count, a_dropped, a_fq, a_fidx,
                   a_cap, a_open, a_reads, a_enq>>
    /\ UNCHANGED NotProcessor

\* _capture_thread_func: time.sleep(reconnect_delay) is over
ACBackoff(g) ==
    /\ a_cpc[g] = "backoff"
    /\ a_cpc' = [a_cpc EXCEPT ![g] = "loop"]
    /\ UNCHANGED <<ACaptureOther, a_error, ACounters, a_fq, a_retry, a_fidx,
                   a_cap, a_open, a_opens, a_streak, a_reads, a_enq>>
    /\ UNCHANGED NotProcessor

\* _capture_thread_func: the inner `while self.is_running`; when the flag is
\* clear the loop is left and cap.release() runs
ACInner(g) ==
    /\ a_cpc[g] = "inner"
    /\ IF a_running
       THEN /\ a_cpc' = [a_cpc EXCEPT ![g] = "reading"]
            /\ UNCHANGED <<a_cap, a_open>>
       ELSE /\ a_cpc' = [a_cpc EXCEPT ![g] = "loop"]
            /\ a_cap' = [a_cap EXCEPT ![g] = FALSE]
            /\ a_open' = a_open - 1
    /\ UNCHANGED <<ACaptureOther, a_error, ACounters, a_fq, a_retry, a_fidx,
                   a_opens, a_streak, a_reads, a_enq>>
    /\ UNCHANGED NotProcessor

\* _capture_thread_func: cap.read() returned a frame; it is put into
\* frame_queue and counted in frame_count, or counted in dropped_frames when
\* the queue is full
ACReadFrame(g) ==
    /\ a_cpc[g] = "reading"
    /\ a_reads < a_limit.reads
    /\ a_reads' = a_reads + 1
    /\ IF QFull(a_fq, a_buffer)
       THEN /\ a_dropped' = a_dropped + 1
            /\ UNCHANGED <<a_fq, a_fidx, a_frame_count, a_enq>>
       ELSE /\ a_fq' = QPut(a_fq, <<g, a_fidx[g]>>)
            /\ a_fidx' = [a_fidx EXCEPT ![g] = @ + 1]
            /\ a_enq' = Append(a_enq, a_fidx[g])
            /\ a_frame_count' = a_frame_count + 1
            /\ UNCHANGED a_dropped
    /\ a_cpc' = [a_cpc EXCEPT ![g] = "inner"]
    /\ UNCHANGED <<ACaptureOther, a_error, a_reconnects, a_retry, a_cap,
                   a_open, a_opens, a_streak>>
    /\ UNCHANGED NotProcessor

\* _capture_thread_func: cap.read() returned no frame; the inner loop is left
\* and cap.release() runs
ACReadFail(g) ==
    /\ a_cpc[g] = "reading"
    /\ a_cpc' = [a_cpc EXCEPT ![g] = "loop"]
    /\ a_cap' = [a_cap EXCEPT ![g] = FALSE]
    /\ a_open' = a_open - 1
    /\ UNCHANGED <<ACaptureOther, a_error, ACounters, a_fq, a_retry, a_fidx,
                   a_opens, a_streak, a_reads, a_enq>>
    /\ UNCHANGED NotProcessor

\* _capture_thread_func: an exception inside the inner loop; the handler runs
\* and cap.release() is skipped
ACReadRaise(g) ==
    /\ a_cpc[g] = "reading"
    /\ a_error' = ErrorText
    /\ a_reconnects' = a_reconnects + 1
    /\ a_retry' = [a_retry EXCEPT ![g] = @ + 1]
    /\ a_cpc' = [a_cpc EXCEPT ![g] = AfterFailure(a_retry[g] + 1)]
    /\ UNCHANGED <<ACaptureOther, a_frame_count, a_dropped, a_fq, a_fidx,
                   a_cap, a_open, a_opens, a_streak, a_reads, a_enq>>
    /\ UNCHANGED NotProcessor

AProcessingOther == <<AConfig, a_running, a_error, ACounters, a_run, ACapture,
                      a_stop, a_starts, a_delivered>>

\* _processing_thread_func: `while self.is_running`
APCheck(g) ==
    /\ a_ppc[g] = "check"
    /\ a_ppc' = [a_ppc EXCEPT ![g] = IF a_running THEN "waiting" ELSE "ended"]
    /\ UNCHANGED <<AProcessingOther, AQueues, a_pframe>>
    /\ UNCHANGED NotProcessor

\* _processing_thread_func: frame_queue.get(timeout=1.0) returned a frame
APGet(g) ==
    /\ a_ppc[g] = "waiting"
    /\ a_fq # <<>>
    /\ a_pframe' = [a_pframe EXCEPT ![g] = QFront(a_fq)]
    /\ a_fq' = QRest(a_fq)
    /\ a_ppc' = [a_ppc EXCEPT ![g] = "have"]
    /\ UNCHANGED <<AProcessingOther, a_pq>>
    /\ UNCHANGED NotProcessor

\* _processing_thread_func: frame_queue.get(timeout=1.0) raised queue.Empty
APTimeout(g) ==
    /\ a_ppc[g] = "waiting"
    /\ a_fq = <<>>
    /\ a_ppc' = [a_ppc EXCEPT ![g] = "check"]
    /\ UNCHANGED <<AProcessingOther, AQueues, a_pframe>>
    /\ UNCHANGED NotProcessor

\* _processing_thread_func: the processed frame is put into
\* processed_frame_queue; queue.Full is passed over
APPut(g) ==
    /\ a_ppc[g] = "have"
    /\ IF QFull(a_pq, a_buffer)
       THEN UNCHANGED a_pq
       ELSE a_pq' = QPut(a_pq, a_pframe[g])
    /\ a_pframe' = [a_pframe EXCEPT ![g] = NoFrame]
    /\ a_ppc' = [a_ppc EXCEPT ![g] = "check"]
    /\ UNCHANGED <<AProcessingOther, a_fq>>
    /\ UNCHANGED NotProcessor

\* get_frame / get_frame_data: the oldest processed frame, None when stopped
\* or when the queue is empty
AGetFrame ==
    /\ a_running
    /\ a_pq # <<>>
    /\ a_pq' = QRest(a_pq)
    /\ a_delivered' = a_delivered + 1
    /\ UNCHANGED <<AConfig, a_running, a_error, ACounters, a_fq, a_run,
                   ACapture, AProcessing, a_stop, a_starts>>
    /\ UNCHANGED NotProcessor

ANext ==
    \/ AStart
    \/ AStopBegin
    \/ AStopJoinCapture
    \/ AStopReturn
    \/ AGetFrame
    \/ \E g \in Runs : ACLoop(g)
    \/ \E g \in Runs : ACOpenOk(g)
    \/ \E g \in Runs : ACOpenFail(g)
    \/ \E g \in Runs : ACBackoff(g)
    \/ \E g \in Runs : ACInner(g)
    \/ \E g \in Runs : ACReadFrame(g)
    \/ \E g \in Runs : ACReadFail(g)
    \/ \E g \in Runs : ACReadRaise(g)
    \/ \E g \in Runs : APCheck(g)
    \/ \E g \in Runs : APGet(g)
    \/ \E g \in Runs : APTimeout(g)
    \/ \E g \in Runs : APPut(g)

(***************************************************************************)
(* Properties of AdvancedRTSPProcessor.                                    *)
(***************************************************************************)
\* frames inside the processor: in a queue or held by a processing thread
InFlight ==
    Len(a_fq) + Len(a_pq)
        + Cardinality({g \in Runs : a_pframe[g] # NoFrame})

\* C5: at every observation point dropped_frames <= frame_count, and the
\* frames delivered or still inside the processor number
\* frame_count - dropped_frames.
C5_SourceBalance ==
    /\ a_dropped <= a_frame_count
    /\ a_delivered + InFlight = a_frame_count - a_dropped

Exhausted(g) == a_cpc[g] = "exhausted"

\* the capture loop of run g has stopped after n consecutive failed open
\* attempts, and not before
ExhaustionAfter(n) ==
    \A g \in Runs :
        /\ a_streak[g] <= n
        /\ a_streak[g] >= 1 /\ a_streak[g] = n => Exhausted(g)
        /\ Exhausted(g) /\ a_retry[g] = a_streak[g] => a_streak[g] = n
        /\ Exhausted(g) /\ g = a_run => a_error # Null

\* C6, as claimed: reconnect_attempts consecutive failed open attempts end the
\* capture loop after exactly reconnect_attempts attempts, the error being
\* non-null from then on.
C6_ExactlyAttempts == a_run > 0 => ExhaustionAfter(a_attempts)

AtLeastOne(n) == IF n < 1 THEN 1 ELSE n

\* C6, amended: the number of attempts is max(1, reconnect_attempts); once
\* the loop of a run has ended this way it makes no further attempt, and the
\* error stays non-null until a start() that starts a new run.
C6_State == a_run > 0 => ExhaustionAfter(AtLeastOne(a_attempts))
C6_Step == \A g \in Runs : Exhausted(g) => a_cpc'[g] = "exhausted"
C6_Exhaustion == []C6_State /\ [][C6_Step]_vars

\* a loop configured with reconnect_attempts = 2 ended after two failures in
\* a row
C6_Witness ==
    \E g \in Runs :
        Exhausted(g) /\ a_attempts = 2 /\ a_streak[g] = 2 /\ a_retry[g] = 2

\* C7: start() called after the capture loop has ended by exhaustion, no
\* other call in between, clears the error and starts a new capture thread.
C7_RestartStep ==
    (a_run > 0 /\ Exhausted(a_run) /\ a_running /\ a_starts' = a_starts + 1)
        => (a_error' = Null /\ a_run' = a_run + 1)
C7_RestartAfterExhaustion == [][C7_RestartStep]_vars

\* C10: when stop() returns, no connection handle is open.
C10_ReturnStep ==
    (a_stop = "join_processing" /\ a_stop' = "idle") => a_open' = 0
C10_StopReleases == [][C10_ReturnStep]_vars

\* C11: a capture thread holds a connection handle only inside its inner
\* loop: wherever else it is (before an open, in the backoff sleep, after
\* its retries are exhausted, ended), the handle it created was released.
C11_HandleReleased ==
    \A g \in Runs :
        a_cpc[g] \in {"loop", "opening", "backoff", "exhausted", "ended"}
            => ~a_cap[g]

\* C12: no queue of the ingestion path ever holds more than its capacity,
\* and a producer that is about to enqueue can always take that step, the
\* target queue full or not: the capture thread, the processing thread,
\* process_frame, the input worker and the stage workers.
C12_Capacity ==
    /\ Len(p_inq) <= p_cap
    /\ \A s \in Stages : Len(p_sq[s]) <= p_cap
    /\ Len(p_outq) <= p_cap
    /\ Len(a_fq) <= a_buffer
    /\ Len(a_pq) <= a_buffer
C12_NeverWaits ==
    /\ p_running /\ p_calls < p_offer => ENABLED ProcessFrame
    /\ \A g \in Gens : p_ipc[g] = "have" => ENABLED InputPut(g)
    /\ \A w \in Slots : p_wpc[w] = "have" => ENABLED WReturn(w)
    /\ \A w \in Slots : p_wpc[w] = "adapt_put" => ENABLED WAdaptPut(w)
    /\ \A g \in Runs : a_cpc[g] = "reading" /\ a_reads < a_limit.reads
                          => ENABLED ACReadFrame(g)
    /\ \A g \in Runs : a_ppc[g] = "have" => ENABLED APPut(g)
C12_Backpressure == C12_Capacity /\ C12_NeverWaits

\* a stage worker met a full queue, dropped and is back in its loop while the
\* queue is still full
C12_Witness ==
    /\ p_stagedrops[1] >= 1
    /\ p_wpc[<<1, 1>>] = "idle"
    /\ Len(p_sq[2]) = p_cap
    /\ p_dropped >= 1

\* C13: while the capture thread of the current run is connected and reading
\* frames, the error that get_status() reports is null.
C13_NullWhenHealthy ==
    (a_run > 0 /\ a_running /\ a_cpc[a_run] \in {"inner", "reading"})
        => a_error = Null

\* C14: a frame query is a read: the step in which get_frame hands a frame to
\* its caller leaves processed_frame_queue as it was, so the same frame is
\* still there for the polling loop and for the next caller.
C14_QueryStep ==
    a_delivered' = a_delivered + 1 => a_pq' = a_pq
C14_QueryReadOnly == [][C14_QueryStep]_vars

\* C22: start() on a processor that is already running has no side effect:
\* the counters, the error, both queues, the running flag and the threads
\* are after the call what they were before it.
C22_StartStep ==
    (a_running /\ a_starts' = a_starts + 1)
        => UNCHANGED <<a_frame_count, a_dropped, a_reconnects, a_error, a_fq,
                       a_pq, a_running, a_run, a_cpc, a_ppc>>
C22_StartWhileRunning == [][C22_StartStep]_vars
C22_Witness ==
    /\ a_starts = 2
    /\ a_run = 1
    /\ a_running
    /\ a_frame_count = 1
    /\ a_reconnects >= 1
    /\ a_error # Null

\* C24: whatever start() and stop() calls were made, at most one capture
\* thread and at most one processing thread of the processor are live.
C24_LiveCapture == {g \in Runs : a_cpc[g] \notin {"none", "ended", "exhausted"}}
C24_LiveProcessing == {g \in Runs : a_ppc[g] \notin {"none", "ended"}}
C24_OneThreadOfEach ==
    /\ Cardinality(C24_LiveCapture) <= 1
    /\ Cardinality(C24_LiveProcessing) <= 1

\* C17: within one run, from a start() to the next stop(), the frame_index
\* values of the frames put into frame_queue start at 0 and are strictly
\* increasing in enqueue order (hence unique), whatever was dropped and
\* however often the stream was reopened.
C17_FrameIndexes ==
    /\ a_enq # <<>> => a_enq[1] = 0
    /\ \A i \in 1..(Len(a_enq) - 1) : a_enq[i] < a_enq[i + 1]

\* C18: a frame read that fails is a lost connection handled by the reconnect
\* policy: the step in which cap.read() ends without a frame counts toward
\* the configured attempts (retry_count) and toward reconnect_count, so that
\* reads failing again and again end in the fatal state instead of in one
\* reopening after the other.
C18_ReadFailStep ==
    \A g \in Runs :
        (a_cpc[g] = "reading" /\ a_cpc'[g] # "reading" /\ a_reads' = a_reads)
            => /\ a_retry'[g] = a_retry[g] + 1
               /\ a_reconnects' = a_reconnects + 1
C18_ReadFailuresCount == [][C18_ReadFailStep]_vars

(***************************************************************************)
(* CameraMonitor: construction and the three calls.  Each of start_camera, *)
(* stop_camera and get_camera_status runs under self.lock from its first   *)
(* to its last statement, so each is one step.                             *)
(***************************************************************************)
Absent == [status |-> "absent", error |-> Null]
NoneMade == [calls |-> 0, procs |-> 0, pipes |-> 0, threads |-> 0]
NoneCounted == [processed |-> 0, dropped |-> 0]

MInit ==
    /\ \/ /\ m_exists = [c \in Cameras |-> TRUE]
          /\ m_frames = [c \in Cameras |-> 0]
       \/ /\ m_exists = [c \in Cameras |-> c = 1]
          /\ m_frames = [c \in Cameras |-> IF c = 1 THEN MaxPulls ELSE 0]
    /\ m_db = [c \in Cameras |-> "inactive"]
    /\ m_procs = [c \in Cameras |-> NoInstance]
    /\ m_pipes = [c \in Cameras |-> NoInstance]
    /\ m_threads = [c \in Cameras |-> NoInstance]
    /\ m_events = [c \in Cameras |-> NoInstance]
    /\ m_status = [c \in Cameras |-> Absent]
    /\ m_evset = [c \in Cameras |-> [n \in Instances |-> FALSE]]
    /\ m_prun = [c \in Cameras |-> [n \in Instances |-> "none"]]
    /\ m_plrun = [c \in Cameras |-> [n \in Instances |-> "none"]]
    /\ m_perr = [c \in Cameras |-> [n \in Instances |-> FALSE]]
    /\ m_tpc = [c \in Cameras |-> [n \in Instances |-> "none"]]
    /\ m_tref = [c \in Cameras |-> [n \in Instances |-> NoInstance]]
    /\ m_next = [c \in Cameras |-> 0]
    /\ m_made = [c \in Cameras |-> NoneMade]
    /\ m_limit \in 0..MaxCalls
    /\ m_calls = 0
    /\ m_ret = [op |-> "none", cam |-> 0, val |-> "none", error |-> Null]
    /\ m_last = [op |-> "none", cam |-> 0, val |-> "none", error |-> Null]
    /\ m_order = <<>>
    /\ m_count = [c \in Cameras |-> NoneCounted]
    /\ m_pulled = [c \in Cameras |-> [n \in Instances |-> 0]]

MRegistry == <<m_procs, m_pipes, m_threads, m_events, m_status>>
MObjects == <<m_evset, m_prun, m_plrun, m_perr, m_tpc, m_tref, m_next>>
MDatabase == <<m_exists, m_db>>

\* a call of one of the monitor's methods returns
MReturn(op, c, val, err) ==
    /\ m_calls < m_limit
    /\ m_calls' = m_calls + 1
    /\ m_ret' = [op |-> op, cam |-> c, val |-> val, error |-> err]
    /\ m_last' = m_ret

\* a start_camera that always goes on to construct
AlreadyMonitoredNever(c) == FALSE

\* `camera_id in self.active_processors`
AlreadyMonitored(c) == m_procs[c] # NoInstance

\* start_camera(camera_id, custom_config); cfg is whether the merged
\* configuration is one AdvancedRTSPProcessor accepts (TransportProtocol(
\* transport) raises ValueError on any other transport)
StartCamera(c, cfg) ==
    /\ m_made' = [m_made EXCEPT ![c] =
                      IF ~AlreadyMonitored(c) /\ m_exists[c] /\ cfg = "valid"
                      THEN [calls |-> @.calls + 1, procs |-> @.procs + 1,
                            pipes |-> @.pipes + 1, threads |-> @.threads + 1]
                      ELSE [@ EXCEPT !.calls = @ + 1]]
    /\ IF AlreadyMonitored(c)
       THEN /\ MReturn("start_camera", c, "True", Null)
            /\ UNCHANGED <<MRegistry, MObjects, MDatabase>>
       ELSE IF ~m_exists[c]
       THEN /\ MReturn("start_camera", c, "False", Null)
            /\ UNCHANGED <<MRegistry, MObjects, MDatabase>>
       ELSE LET n == m_next[c] + 1 IN
            /\ n <= MaxInstances
            /\ m_next' = [m_next EXCEPT ![c] = n]
            /\ m_events' = [m_events EXCEPT ![c] = n]
            /\ IF cfg = "invalid"
               THEN /\ m_db' = [m_db EXCEPT ![c] = "error"]
                    /\ MReturn("start_camera", c, "False", Null)
                    /\ UNCHANGED <<m_procs, m_pipes, m_threads, m_status, m_prun,
                                   m_plrun, m_tpc>>
               ELSE /\ m_db' = [m_db EXCEPT ![c] = "connecting"]
                    /\ m_prun' = [m_prun EXCEPT ![c][n] = "running"]
                    /\ m_plrun' = [m_plrun EXCEPT ![c][n] = "running"]
                    /\ m_procs' = [m_procs EXCEPT ![c] = n]
                    /\ m_pipes' = [m_pipes EXCEPT ![c] = n]
                    /\ m_status' = [m_status EXCEPT ![c] =
                                       [status |-> "connecting", error |-> Null]]
                    /\ m_tpc' = [m_tpc EXCEPT ![c][n] = "begin"]
                    /\ m_threads' = [m_threads EXCEPT ![c] = n]
                    /\ MReturn("start_camera", c, "True", Null)
            /\ UNCHANGED <<m_exists, m_evset, m_perr, m_tref>>
    /\ m_count' = IF ~AlreadyMonitored(c) /\ m_exists[c] /\ cfg = "valid"
                  THEN [m_count EXCEPT ![c] = NoneCounted]
                  ELSE m_count
    /\ UNCHANGED <<m_order, m_pulled>>
    /\ UNCHANGED <<m_frames, m_limit>>
    /\ UNCHANGED NotMonitor

\* a stop_camera that forgets the status record
StatusAfterStopKept(c) == m_status

\* `del self.camera_status[camera_id]`
StatusAfterStop(c) == [m_status EXCEPT ![c] = Absent]

\* mutant: a stop_camera that stops the pipeline before the processor
StopStepsPipelineFirst(c) ==
    (IF m_events[c] # NoInstance THEN <<"signal">> ELSE <<>>)
        \o (IF m_pipes[c] # NoInstance THEN <<"pipeline">> ELSE <<>>)
        \o (IF m_procs[c] # NoInstance THEN <<"processor">> ELSE <<>>)
        \o (IF m_threads[c] # NoInstance THEN <<"join">> ELSE <<>>)
        \o <<"registry", "persist">>

\* stop_camera: the statements of its try block in the order of the text,
\* each of the first four guarded by `camera_id in` the map it uses
StopSteps(c) ==
    (IF m_events[c] # NoInstance THEN <<"signal">> ELSE <<>>)
        \o (IF m_procs[c] # NoInstance THEN <<"processor">> ELSE <<>>)
        \o (IF m_pipes[c] # NoInstance THEN <<"pipeline">> ELSE <<>>)
        \o (IF m_threads[c] # NoInstance THEN <<"join">> ELSE <<>>)
        \o <<"registry", "persist">>

\* stop_camera(camera_id).  The join of at most 5 s ends early when the
\* thread is in its loop and sees the event; a thread that is waiting for
\* self.lock, which this call holds, outlives the join.
StopCamera(c) ==
    /\ IF m_procs[c] = NoInstance
       THEN /\ MReturn("stop_camera", c, "False", Null)
            /\ UNCHANGED <<MRegistry, MObjects, MDatabase, m_made, m_order, m_count>>
       ELSE /\ m_order' = StopSteps(c)
            /\ m_evset' = IF m_events[c] # NoInstance
                          THEN [m_evset EXCEPT ![c][m_events[c]] = TRUE]
                          ELSE m_evset
            /\ m_prun' = [m_prun EXCEPT ![c][m_procs[c]] = "stopped"]
            /\ m_plrun' = IF m_pipes[c] # NoInstance
                          THEN [m_plrun EXCEPT ![c][m_pipes[c]] = "stopped"]
                          ELSE m_plrun
            /\ m_tpc' = IF m_threads[c] # NoInstance /\ m_tpc[c][m_threads[c]] = "loop"
                        THEN [m_tpc EXCEPT ![c][m_threads[c]] = "done"]
                        ELSE m_tpc
            /\ m_procs' = [m_procs EXCEPT ![c] = NoInstance]
            /\ m_pipes' = [m_pipes EXCEPT ![c] = NoInstance]
            /\ m_threads' = [m_threads EXCEPT ![c] = NoInstance]
            /\ m_events' = [m_events EXCEPT ![c] = NoInstance]
            /\ m_status' = StatusAfterStop(c)
            /\ m_db' = [m_db EXCEPT ![c] = "inactive"]
            /\ m_made' = [m_made EXCEPT ![c] = NoneMade]
            /\ MReturn("stop_camera", c, "True", Null)
            /\ m_count' = [m_count EXCEPT ![c] = NoneCounted]
            /\ UNCHANGED <<m_exists, m_perr, m_tref, m_next>>
    /\ UNCHANGED m_pulled
    /\ UNCHANGED <<m_frames, m_limit>>
    /\ UNCHANGED NotMonitor

\* get_camera_status(camera_id): the record, its 'error' overwritten by the
\* registered processor's
GetCameraStatus(c) ==
    /\ IF m_status[c] = Absent
       THEN MReturn("get_camera_status", c, "inactive", ErrorText)
       ELSE MReturn("get_camera_status", c, m_status[c].status,
                    IF m_procs[c] # NoInstance
                    THEN IF m_perr[c][m_procs[c]] THEN ErrorText ELSE Null
                    ELSE m_status[c].error)
    /\ UNCHANGED <<MRegistry, MObjects, MDatabase, m_made>>
    /\ UNCHANGED <<m_order, m_count, m_pulled>>
    /\ UNCHANGED <<m_frames, m_limit>>
    /\ UNCHANGED NotMonitor

(***************************************************************************)
(* _camera_monitoring_thread of instance n of camera c.  A statement under *)
(* `with self.lock` is one step; `self.camera_status[camera_id]` raises     *)
(* KeyError once stop_camera deleted the entry.                            *)
(***************************************************************************)
MThreadOther == <<m_exists, m_procs, m_pipes, m_threads, m_events, m_evset,
                  m_prun, m_plrun, m_perr, m_next, m_made, m_calls, m_ret, m_last>>

\* lines 377-383: the row, the registered processor and pipeline, 'active'
TBegin(c, n) ==
    /\ m_tpc[c][n] = "begin"
    /\ IF m_procs[c] = NoInstance
       THEN /\ m_tpc' = [m_tpc EXCEPT ![c][n] = "failed"]
            /\ UNCHANGED <<m_tref, m_db>>
       ELSE /\ m_tref' = [m_tref EXCEPT ![c][n] = m_procs[c]]
            /\ m_db' = [m_db EXCEPT ![c] = "active"]
            /\ m_tpc' = [m_tpc EXCEPT ![c][n] = "mark"]
    /\ UNCHANGED <<MThreadOther, m_status>>
    /\ UNCHANGED <<m_order, m_count, m_pulled>>
    /\ UNCHANGED <<m_frames, m_limit>>
    /\ UNCHANGED NotMonitor

\* lines 386-387
TMark(c, n) ==
    /\ m_tpc[c][n] = "mark"
    /\ IF m_status[c] = Absent
       THEN /\ m_tpc' = [m_tpc EXCEPT ![c][n] = "failed"]
            /\ UNCHANGED m_status
       ELSE /\ m_status' = [m_status EXCEPT ![c].status = "active"]
            /\ m_tpc' = [m_tpc EXCEPT ![c][n] = "loop"]
    /\ UNCHANGED <<MThreadOther, m_tref, m_db>>
    /\ UNCHANGED <<m_order, m_count, m_pulled>>
    /\ UNCHANGED <<m_frames, m_limit>>
    /\ UNCHANGED NotMonitor

RECURSIVE PulledBy(_)
\* frames obtained so far by the polling threads in the set ts
PulledBy(ts) ==
    IF ts = {} THEN 0
    ELSE LET t == CHOOSE x \in ts : TRUE
         IN  m_pulled[t[1]][t[2]] + PulledBy(ts \ {t})

\* frames obtained so far from the sources of camera c
Pulled(c) == PulledBy({c} \X Instances)

\* lines 393-396 and 422: the event ends the loop; otherwise get_frame_data
\* returns a frame to submit and account for, or the iteration has none
TLoop(c, n) ==
    /\ m_tpc[c][n] = "loop"
    /\ IF m_evset[c][n]
       THEN /\ m_tpc' = [m_tpc EXCEPT ![c][n] = "done"]
            /\ UNCHANGED m_pulled
       ELSE \/ /\ Pulled(c) < m_frames[c]
               /\ m_pulled' = [m_pulled EXCEPT ![c][n] = @ + 1]
               /\ m_tpc' = [m_tpc EXCEPT ![c][n] = "record"]
            \/ /\ m_tpc' = [m_tpc EXCEPT ![c][n] = "status"]
               /\ UNCHANGED m_pulled
    /\ UNCHANGED <<MThreadOther, m_tref, m_db, m_status>>
    /\ UNCHANGED <<m_order, m_count>>
    /\ UNCHANGED <<m_frames, m_limit>>
    /\ UNCHANGED NotMonitor

\* lines 408-417: frames_processed += 1 when get_result returned a frame,
\* frames_dropped += 1 when it returned None
Counted(c, result) ==
    [m_count EXCEPT ![c] = IF result THEN [@ EXCEPT !.processed = @ + 1]
                           ELSE [@ EXCEPT !.dropped = @ + 1]]

\* lines 398-417 under self.lock, then line 422: the frame obtained at line
\* 396 was submitted, and its result or the lack of one is counted
TRecord(c, n) ==
    /\ m_tpc[c][n] = "record"
    /\ IF m_status[c] = Absent
       THEN /\ m_tpc' = [m_tpc EXCEPT ![c][n] = "failed"]
            /\ UNCHANGED m_count
       ELSE /\ \E result \in BOOLEAN : m_count' = Counted(c, result)
            /\ \E nxt \in {"loop", "status"} : m_tpc' = [m_tpc EXCEPT ![c][n] = nxt]
    /\ UNCHANGED <<MThreadOther, m_tref, m_db, m_status>>
    /\ UNCHANGED <<m_order, m_pulled>>
    /\ UNCHANGED <<m_frames, m_limit>>
    /\ UNCHANGED NotMonitor

\* lines 428-438
TStatus(c, n) ==
    /\ m_tpc[c][n] = "status"
    /\ IF m_status[c] = Absent
       THEN m_tpc' = [m_tpc EXCEPT ![c][n] = "failed"]
       ELSE m_tpc' = [m_tpc EXCEPT ![c][n] =
                         IF m_perr[c][m_tref[c][n]] THEN "flag" ELSE "loop"]
    /\ UNCHANGED <<MThreadOther, m_tref, m_db, m_status>>
    /\ UNCHANGED <<m_order, m_count, m_pulled>>
    /\ UNCHANGED <<m_frames, m_limit>>
    /\ UNCHANGED NotMonitor

\* lines 439-441
TFlag(c, n) ==
    /\ m_tpc[c][n] = "flag"
    /\ IF m_status[c] = Absent
       THEN /\ m_tpc' = [m_tpc EXCEPT ![c][n] = "failed"]
            /\ UNCHANGED m_status
       ELSE /\ m_status' = [m_status EXCEPT ![c] =
                               [status |-> "error", error |-> ErrorText]]
            /\ m_tpc' = [m_tpc EXCEPT ![c][n] = "dberror"]
    /\ UNCHANGED <<MThreadOther, m_tref, m_db>>
    /\ UNCHANGED <<m_order, m_count, m_pulled>>
    /\ UNCHANGED <<m_frames, m_limit>>
    /\ UNCHANGED NotMonitor

\* mutant: a status tick that leaves the persisted record as it was
TDbErrorSkipped(c, n) ==
    /\ m_tpc[c][n] = "dberror"
    /\ m_tpc' = [m_tpc EXCEPT ![c][n] = "loop"]
    /\ UNCHANGED <<MThreadOther, m_tref, m_status, m_db>>
    /\ UNCHANGED <<m_order, m_count, m_pulled>>
    /\ UNCHANGED <<m_frames, m_limit>>
    /\ UNCHANGED NotMonitor

\* lines 444-448
TDbError(c, n) ==
    /\ m_tpc[c][n] = "dberror"
    /\ m_db' = [m_db EXCEPT ![c] = "error"]
    /\ m_tpc' = [m_tpc EXCEPT ![c][n] = "loop"]
    /\ UNCHANGED <<MThreadOther, m_tref, m_status>>
    /\ UNCHANGED <<m_order, m_count, m_pulled>>
    /\ UNCHANGED <<m_frames, m_limit>>
    /\ UNCHANGED NotMonitor

\* any other exception inside the try: a query or a save that fails, the
\* processor or the pipeline raising
TRaise(c, n) ==
    /\ m_tpc[c][n] \in {"begin", "loop", "dberror"}
    /\ m_tpc' = [m_tpc EXCEPT ![c][n] = "failed"]
    /\ UNCHANGED <<MThreadOther, m_tref, m_db, m_status>>
    /\ UNCHANGED <<m_order, m_count, m_pulled>>
    /\ UNCHANGED <<m_frames, m_limit>>
    /\ UNCHANGED NotMonitor

\* lines 450-456: the handler; its own KeyError is not caught
TFailed(c, n) ==
    /\ m_tpc[c][n] = "failed"
    /\ IF m_status[c] = Absent
       THEN /\ m_tpc' = [m_tpc EXCEPT ![c][n] = "crashed"]
            /\ UNCHANGED m_status
       ELSE /\ m_status' = [m_status EXCEPT ![c] =
                               [status |-> "error", error |-> ErrorText]]
            /\ m_tpc' = [m_tpc EXCEPT ![c][n] = "dbfail"]
    /\ UNCHANGED <<MThreadOther, m_tref, m_db>>
    /\ UNCHANGED <<m_order, m_count, m_pulled>>
    /\ UNCHANGED <<m_frames, m_limit>>
    /\ UNCHANGED NotMonitor

\* lines 458-466
TDbFail(c, n) ==
    /\ m_tpc[c][n] = "dbfail"
    /\ m_db' = [m_db EXCEPT ![c] = "error"]
    /\ m_tpc' = [m_tpc EXCEPT ![c][n] = "done"]
    /\ UNCHANGED <<MThreadOther, m_tref, m_status>>
    /\ UNCHANGED <<m_order, m_count, m_pulled>>
    /\ UNCHANGED <<m_frames, m_limit>>
    /\ UNCHANGED NotMonitor

\* the capture loop of a running processor records an error
SourceError(c, n) ==
    /\ m_prun[c][n] = "running"
    /\ ~m_perr[c][n]
    /\ m_perr' = [m_perr EXCEPT ![c][n] = TRUE]
    /\ UNCHANGED <<m_exists, m_db, m_procs, m_pipes, m_threads, m_events, m_status,
                   m_evset, m_prun, m_plrun, m_tpc, m_tref, m_next, m_made,
                   m_calls, m_ret, m_last>>
    /\ UNCHANGED <<m_order, m_count, m_pulled>>
    /\ UNCHANGED <<m_frames, m_limit>>
    /\ UNCHANGED NotMonitor

MNext ==
    \/ \E c \in Cameras, cfg \in {"valid", "invalid"} : StartCamera(c, cfg)
    \/ \E c \in Cameras : StopCamera(c)
    \/ \E c \in Cameras : GetCameraStatus(c)
    \/ \E c \in Cameras, n \in Instances :
          \/ TBegin(c, n)
          \/ TMark(c, n)
          \/ TLoop(c, n)
          \/ TRecord(c, n)
          \/ TStatus(c, n)
          \/ TFlag(c, n)
          \/ TDbError(c, n)
          \/ TRaise(c, n)
          \/ TFailed(c, n)
          \/ TDbFail(c, n)
          \/ SourceError(c, n)

(***************************************************************************)
(* CameraMonitor: properties.                                              *)
(***************************************************************************)
Registered(c) == m_procs[c] # NoInstance
StartCall(c) == m_made'[c].calls = m_made[c].calls + 1
Returns(op, c) == m_calls' = m_calls + 1 /\ m_ret'.op = op /\ m_ret'.cam = c

\* C8: start_camera is idempotent.  While a camera id is registered, one
\* processor, one pipeline and one polling thread have been made for it
\* since it was last stopped, and the three maps hold the instance made by
\* that one call; a start_camera for a registered id returns True, makes
\* nothing, spawns nothing and leaves the registered instances in place.
C8_OneOfEach ==
    \A c \in Cameras : Registered(c) =>
        /\ m_made[c].procs = 1 /\ m_made[c].pipes = 1 /\ m_made[c].threads = 1
        /\ m_pipes[c] = m_procs[c] /\ m_threads[c] = m_procs[c]
        /\ m_procs[c] = m_next[c]
C8_LaterStart ==
    \A c \in Cameras : (Registered(c) /\ StartCall(c)) =>
        /\ m_ret'.val = "True"
        /\ UNCHANGED <<m_procs, m_pipes, m_threads, m_events, m_next, m_tpc,
                       m_prun, m_plrun>>
        /\ m_made'[c] = [m_made[c] EXCEPT !.calls = @ + 1]
C8_IdempotentStart == []C8_OneOfEach /\ [][C8_LaterStart]_vars
C8_Witness ==
    \E c \in Cameras :
        /\ Registered(c)
        /\ m_made[c].calls >= 2
        /\ m_ret = [op |-> "start_camera", cam |-> c, val |-> "True", error |-> Null]
        /\ m_last = m_ret

\* C9: a stop_camera of a registered id returns True and leaves no entry for
\* the id in any of the five maps, and a get_camera_status of the id that is
\* the next call returns 'inactive'; a stop_camera of an id that is not
\* registered returns False and changes nothing.
C9_StopStep ==
    \A c \in Cameras : Returns("stop_camera", c) =>
        IF Registered(c)
        THEN /\ m_ret'.val = "True"
             /\ m_procs'[c] = NoInstance /\ m_pipes'[c] = NoInstance
             /\ m_threads'[c] = NoInstance /\ m_events'[c] = NoInstance
             /\ m_status'[c] = Absent
        ELSE /\ m_ret'.val = "False"
             /\ UNCHANGED <<MRegistry, MObjects, MDatabase, m_made>>
C9_StatusAfterStop ==
    \A c \in Cameras :
        (/\ m_last.op = "stop_camera" /\ m_last.cam = c /\ m_last.val = "True"
         /\ m_ret.op = "get_camera_status" /\ m_ret.cam = c)
            => m_ret.val = "inactive"
C9_StopCamera == []C9_StatusAfterStop /\ [][C9_StopStep]_vars
C9_Witness ==
    \E c \in Cameras :
        /\ m_last = [op |-> "stop_camera", cam |-> c, val |-> "True", error |-> Null]
        /\ m_ret = [op |-> "get_camera_status", cam |-> c, val |-> "inactive",
                    error |-> ErrorText]
        /\ m_tpc[c][1] \notin {"none", "done"}

\* C21: an operator error is rejected before anything runs: the step in
\* which start_camera returns False leaves none of the five registry maps
\* with an entry for that camera and starts no polling thread.
C21_RejectStep ==
    \A c \in Cameras :
        (Returns("start_camera", c) /\ m_ret'.val = "False")
            => /\ m_procs'[c] = NoInstance
               /\ m_pipes'[c] = NoInstance
               /\ m_threads'[c] = NoInstance
               /\ m_events'[c] = NoInstance
               /\ m_status'[c] = Absent
               /\ m_tpc' = m_tpc
C21_RejectedBeforeRun == [][C21_RejectStep]_vars

\* C25: every exception raised inside the polling thread is caught and
\* recorded: under every interleaving with stop_camera no polling thread
\* ends with an exception that nothing handled.
\* the place of step x among the steps of the last stop_camera, 0 if none
C29_Pos(x) ==
    IF \E i \in 1..Len(m_order) : m_order[i] = x
    THEN CHOOSE i \in 1..Len(m_order) : m_order[i] = x
    ELSE 0
C29_Before(x, y) == C29_Pos(x) > 0 /\ C29_Pos(x) < C29_Pos(y)

\* C29 as stated: stop_camera signals the polling thread, then stops the
\* pipeline, then stops the stream source, and only then removes the
\* registry entries.
C29_PipelineThenSource ==
    m_order # <<>> =>
        /\ C29_Before("signal", "pipeline")
        /\ C29_Before("pipeline", "processor")
        /\ C29_Before("processor", "registry")

\* C29, amended: stop_camera signals the polling thread, then stops the
\* stream source, then stops the pipeline, then waits for the polling
\* thread, and only then removes the registry entries.
C29_SourceThenPipeline ==
    m_order # <<>> =>
        /\ C29_Before("signal", "processor")
        /\ C29_Before("processor", "pipeline")
        /\ C29_Before("pipeline", "join")
        /\ C29_Before("join", "registry")
C29_OrderWitness ==
    \E c \in Cameras :
        /\ m_ret = [op |-> "stop_camera", cam |-> c, val |-> "True", error |-> Null]
        /\ Len(m_order) = 6
        /\ m_procs[c] = NoInstance
        /\ m_prun[c][1] = "stopped"
        /\ m_plrun[c][1] = "stopped"

\* a step of an explicit start_camera or stop_camera call
C30_ExplicitCall ==
    m_calls' # m_calls /\ m_ret'.op \in {"start_camera", "stop_camera"}

\* the status tick of thread n of camera c: the processor's error, seen while
\* the camera has a record, is written to the record and then persisted
C30_TickStep(c, n) ==
    /\ (/\ m_tpc[c][n] = "status" /\ m_tpc'[c][n] # "status"
        /\ m_status[c] # Absent /\ m_perr[c][m_tref[c][n]])
            => m_tpc'[c][n] = "flag"
    /\ (m_tpc[c][n] = "flag" /\ m_tpc'[c][n] # "flag" /\ m_status[c] # Absent)
            => /\ m_status'[c] = [status |-> "error", error |-> ErrorText]
               /\ m_tpc'[c][n] = "dberror"
    /\ (m_tpc[c][n] = "dberror" /\ m_tpc'[c][n] # "dberror")
            => \/ m_db'[c] = "error" /\ m_tpc'[c][n] = "loop"
               \/ m_tpc'[c][n] = "failed"

\* every step that is not an explicit start_camera or stop_camera leaves the
\* registration, the instances and their run states as they were
C30_NoRestartStep ==
    ~C30_ExplicitCall =>
        /\ UNCHANGED <<m_procs, m_pipes, m_threads, m_events, m_made, m_prun, m_plrun>>
        /\ \A c \in Cameras : (m_status[c] = Absent) <=> (m_status'[c] = Absent)

\* get_camera_status of a camera whose record says 'error' returns it
C30_QueryStep ==
    \A c \in Cameras :
        (/\ m_calls' # m_calls
         /\ m_ret'.op = "get_camera_status" /\ m_ret'.cam = c
         /\ m_status[c] # Absent
         /\ m_status[c].status = "error")
            => m_ret'.val = "error"

\* C30: a processor error seen at a status tick sets 'error' in
\* camera_status and in the persisted record; the camera stays registered
\* and queryable, and only start_camera or stop_camera changes the
\* registration or starts a processor or pipeline.
C30_ErrorKeepsRegistration ==
    [][/\ \A c \in Cameras, n \in Instances : C30_TickStep(c, n)
       /\ C30_NoRestartStep
       /\ C30_QueryStep]_vars
C30_Witness ==
    \E c \in Cameras :
        /\ m_procs[c] # NoInstance
        /\ m_perr[c][m_procs[c]]
        /\ m_prun[c][m_procs[c]] = "running"
        /\ m_tpc[c][m_threads[c]] = "loop"
        /\ m_status[c] = [status |-> "error", error |-> ErrorText]
        /\ m_db[c] = "error"
        /\ m_ret = [op |-> "get_camera_status", cam |-> c, val |-> "error",
                    error |-> ErrorText]

\* C31: at every iteration boundary of the polling thread of a monitored
\* camera, frames_processed + frames_dropped of its camera_status record
\* equals the number of frames that thread obtained from the source.
C31_Accounting ==
    \A c \in Cameras :
        (/\ m_threads[c] # NoInstance
         /\ m_status[c] # Absent
         /\ m_tpc[c][m_threads[c]] \in {"loop", "status"})
            => m_count[c].processed + m_count[c].dropped = m_pulled[c][m_threads[c]]

C25_NoUnhandledException ==
    \A c \in Cameras, n \in Instances : m_tpc[c][n] # "crashed"

(***************************************************************************)
(* RTSPStream.                                                             *)
(***************************************************************************)
\* the constructor has called connect()
RInit ==
    /\ r_active = FALSE
    /\ r_stopping = FALSE
    /\ r_cap = FALSE
    /\ r_last = FALSE
    /\ r_cpc = "opening"
    /\ r_fpc = [i \in Connections |-> "none"]
    /\ r_gpc = "idle"
    /\ r_opc = "idle"
    /\ r_connects = 1

ConnectionAlive == r_cpc \in {"opening", "testing"}

\* connect(): nothing while a connection thread is alive; otherwise clears
\* `stopping` and starts a connection thread
Connect ==
    IF ConnectionAlive
    THEN UNCHANGED <<r_stopping, r_cpc, r_connects>>
    ELSE /\ r_connects < MaxConnects
         /\ r_stopping' = FALSE
         /\ r_cpc' = "opening"
         /\ r_connects' = r_connects + 1

\* stop(...) up to the release of the capture
StopFlags ==
    /\ r_stopping' = TRUE
    /\ r_active' = FALSE
    /\ r_cap' = FALSE

\* _connect_thread: a backend opens the stream, or all of them fail
ROpen ==
    /\ r_cpc = "opening"
    /\ \/ /\ r_cap' = TRUE
          /\ r_cpc' = "testing"
          /\ UNCHANGED r_active
       \/ /\ r_active' = FALSE
          /\ r_cpc' = "done"
          /\ UNCHANGED r_cap
    /\ UNCHANGED <<r_stopping, r_last, r_fpc, r_gpc, r_opc, r_connects>>
    /\ UNCHANGED NotStream

\* _connect_thread: the test frame; self.cap.read() raises when stop() has
\* set self.cap to None; on success the frame thread is started
RTest ==
    /\ r_cpc = "testing"
    /\ r_cpc' = "done"
    /\ IF ~r_cap
       THEN r_active' = FALSE /\ UNCHANGED r_fpc
       ELSE \/ /\ r_active' = TRUE
               /\ r_fpc' = [r_fpc EXCEPT ![r_connects] = "loop"]
            \/ /\ r_active' = FALSE
               /\ UNCHANGED r_fpc
    /\ UNCHANGED <<r_stopping, r_cap, r_last, r_gpc, r_opc, r_connects>>
    /\ UNCHANGED NotStream

\* _frame_capture_thread: `while self.is_active and not self.stopping`; a
\* frame is stored under frame_lock, or the errors are too many
RFrame(i) ==
    /\ r_fpc[i] = "loop"
    /\ IF r_active /\ ~r_stopping
       THEN \/ /\ r_gpc = "idle"
               /\ r_last' = TRUE
               /\ UNCHANGED r_fpc
            \/ /\ r_fpc' = [r_fpc EXCEPT ![i] = "reconnect"]
               /\ UNCHANGED r_last
       ELSE /\ r_fpc' = [r_fpc EXCEPT ![i] = "ended"]
            /\ UNCHANGED r_last
    /\ UNCHANGED <<r_active, r_stopping, r_cap, r_cpc, r_gpc, r_opc, r_connects>>
    /\ UNCHANGED NotStream

\* _reconnect on the frame thread: stop(reconnect=True), then time.sleep(2)
RFReconnectStop(i) ==
    /\ r_fpc[i] = "reconnect"
    /\ StopFlags
    /\ r_fpc' = [r_fpc EXCEPT ![i] = "sleep"]
    /\ UNCHANGED <<r_last, r_cpc, r_gpc, r_opc, r_connects>>
    /\ UNCHANGED NotStream

\* _reconnect on the frame thread: connect(), and the thread leaves its loop
RFReconnectConnect(i) ==
    /\ r_fpc[i] = "sleep"
    /\ Connect
    /\ r_fpc' = [r_fpc EXCEPT ![i] = "ended"]
    /\ UNCHANGED <<r_active, r_cap, r_last, r_gpc, r_opc>>
    /\ UNCHANGED NotStream

\* get_frame(): the frame is older than 10 s; _reconnect under frame_lock,
\* stop(reconnect=True) and then time.sleep(2)
RGetFrameStale ==
    /\ r_gpc = "idle"
    /\ r_opc # "clearing"
    /\ r_last
    /\ StopFlags
    /\ r_gpc' = "sleep"
    /\ UNCHANGED <<r_last, r_cpc, r_fpc, r_opc, r_connects>>
    /\ UNCHANGED NotStream

\* get_frame(): connect(), return None and release frame_lock
RGetFrameConnect ==
    /\ r_gpc = "sleep"
    /\ Connect
    /\ r_gpc' = "idle"
    /\ UNCHANGED <<r_active, r_cap, r_last, r_fpc, r_opc>>
    /\ UNCHANGED NotStream

\* the operator's stop(): the flags and the release
RStop ==
    /\ r_opc = "idle"
    /\ StopFlags
    /\ r_opc' = "clearing"
    /\ UNCHANGED <<r_last, r_cpc, r_fpc, r_gpc, r_connects>>
    /\ UNCHANGED NotStream

\* the operator's stop(): the last frame is cleared under frame_lock
RStopReturn ==
    /\ r_opc = "clearing"
    /\ r_gpc = "idle"
    /\ r_last' = FALSE
    /\ r_opc' = "returned"
    /\ UNCHANGED <<r_active, r_stopping, r_cap, r_cpc, r_fpc, r_gpc, r_connects>>
    /\ UNCHANGED NotStream

RNext ==
    \/ ROpen
    \/ RTest
    \/ \E i \in Connections : RFrame(i)
    \/ \E i \in Connections : RFReconnectStop(i)
    \/ \E i \in Connections : RFReconnectConnect(i)
    \/ RGetFrameStale
    \/ RGetFrameConnect
    \/ RStop
    \/ RStopReturn

\* C15: once the operator has called stop(), `stopping` stays set and no
\* connection thread is started any more.
C15_AfterStop ==
    r_opc # "idle" => (r_stopping' /\ r_connects' = r_connects)
C15_StoppedIsTerminal == [][C15_AfterStop]_vars

(***************************************************************************)
(* hikvision_stream.AdvancedRTSPProcessor: start(), stop() and the thread  *)
(* _process_frames.  The operator starts the processor once.               *)
(***************************************************************************)
MaxReconnectText == "max_reconnect"

HInit ==
    /\ h_attempts \in 0..MaxReconnect
    /\ h_running = FALSE
    /\ h_stop_event = FALSE
    /\ h_error = Null
    /\ h_cap = "none"
    /\ h_last = FALSE
    /\ h_tpc = "none"
    /\ h_reconnect_count = 0
    /\ h_spc = "idle"
    /\ h_streak = 0
    /\ h_losses = 0

\* start(): clears error and stop_event and opens the stream; when it is not
\* opened the error is set and False returned, otherwise the thread starts
HStart(opened) ==
    /\ h_spc = "idle"
    /\ h_tpc = "none"
    /\ ~h_running
    /\ h_stop_event' = FALSE
    /\ IF opened
       THEN /\ h_cap' = "opened"
            /\ h_error' = Null
            /\ h_running' = TRUE
            /\ h_tpc' = "loop"
       ELSE /\ h_cap' = "closed"
            /\ h_error' = ErrorText
            /\ UNCHANGED <<h_running, h_tpc>>
    /\ UNCHANGED <<h_attempts, h_last, h_reconnect_count, h_spc, h_streak,
                   h_losses>>
    /\ UNCHANGED NotHikvision

\* stop(): returns at once when not running; otherwise sets stop_event
HStop ==
    /\ h_spc = "idle"
    /\ h_running
    /\ h_stop_event' = TRUE
    /\ h_spc' = "joining"
    /\ UNCHANGED <<h_attempts, h_running, h_error, h_cap, h_last, h_tpc,
                   h_reconnect_count, h_streak, h_losses>>
    /\ UNCHANGED NotHikvision

\* stop(): thread.join(timeout=5.0) returns, the thread having ended or the
\* timeout having passed inside time.sleep or cap.read(); the capture is
\* released and running cleared
HStopReturn ==
    /\ h_spc = "joining"
    /\ h_tpc \in {"ended", "sleep", "reading"}
    /\ h_cap' = "none"
    /\ h_running' = FALSE
    /\ h_spc' = "idle"
    /\ UNCHANGED <<h_attempts, h_stop_event, h_error, h_last, h_tpc,
                   h_reconnect_count, h_streak, h_losses>>
    /\ UNCHANGED NotHikvision

\* _process_frames: `while not self.stop_event.is_set()` and the test of
\* self.cap; without an opened capture the thread reconnects while
\* reconnect_count < reconnect_attempts and otherwise sets the error and
\* leaves the loop; after the loop the capture is released
HLoop ==
    /\ h_tpc = "loop"
    /\ IF h_stop_event
       THEN /\ h_cap' = "none"
            /\ h_tpc' = "ended"
            /\ UNCHANGED <<h_error, h_reconnect_count>>
       ELSE IF h_cap # "opened"
            THEN IF h_reconnect_count < h_attempts
                 THEN /\ h_reconnect_count' = h_reconnect_count + 1
                      /\ h_tpc' = "sleep"
                      /\ UNCHANGED <<h_error, h_cap>>
                 ELSE /\ h_error' = MaxReconnectText
                      /\ h_cap' = "none"
                      /\ h_tpc' = "ended"
                      /\ UNCHANGED h_reconnect_count
            ELSE /\ h_tpc' = "reading"
                 /\ UNCHANGED <<h_error, h_cap, h_reconnect_count>>
    /\ UNCHANGED <<h_attempts, h_running, h_stop_event, h_last, h_spc,
                   h_streak, h_losses>>
    /\ UNCHANGED NotHikvision

\* _process_frames: time.sleep(reconnect_delay) is over and a new capture is
\* created, opened or not; reconnect_count is left as it is
HReconnect(opened) ==
    /\ h_tpc = "sleep"
    /\ h_cap' = IF opened THEN "opened" ELSE "closed"
    /\ h_streak' = IF opened THEN 0 ELSE h_streak + 1
    /\ h_tpc' = "loop"
    /\ UNCHANGED <<h_attempts, h_running, h_stop_event, h_error, h_last,
                   h_reconnect_count, h_spc, h_losses>>
    /\ UNCHANGED NotHikvision

\* _process_frames: cap.read() returned a frame, which becomes last_frame
HReadFrame ==
    /\ h_tpc = "reading"
    /\ h_cap = "opened"
    /\ h_last' = TRUE
    /\ h_tpc' = "loop"
    /\ UNCHANGED <<h_attempts, h_running, h_stop_event, h_error, h_cap,
                   h_reconnect_count, h_spc, h_streak, h_losses>>
    /\ UNCHANGED NotHikvision

\* _process_frames: cap.read() returned no frame; the stream is still opened
\* or, the connection being lost, no longer is
HReadNone(lost) ==
    /\ h_tpc = "reading"
    /\ h_cap = "opened"
    /\ IF lost
       THEN /\ h_losses < MaxLosses
            /\ h_losses' = h_losses + 1
            /\ h_cap' = "closed"
       ELSE UNCHANGED <<h_losses, h_cap>>
    /\ h_tpc' = "loop"
    /\ UNCHANGED <<h_attempts, h_running, h_stop_event, h_error, h_last,
                   h_reconnect_count, h_spc, h_streak>>
    /\ UNCHANGED NotHikvision

\* _process_frames: an exception inside the loop, as when stop() has set
\* self.cap to None; the error is kept and the loop goes on
HReadRaise ==
    /\ h_tpc = "reading"
    /\ h_error' = ErrorText
    /\ h_tpc' = "loop"
    /\ UNCHANGED <<h_attempts, h_running, h_stop_event, h_cap, h_last,
                   h_reconnect_count, h_spc, h_streak, h_losses>>
    /\ UNCHANGED NotHikvision

HNext ==
    \/ \E opened \in BOOLEAN : HStart(opened)
    \/ HStop
    \/ HStopReturn
    \/ HLoop
    \/ \E opened \in BOOLEAN : HReconnect(opened)
    \/ HReadFrame
    \/ \E lost \in BOOLEAN : HReadNone(lost)
    \/ HReadRaise

\* C19: a successful (re)connection resets the retry counter: either source
\* is in its fatal state only after reconnect_attempts connection attempts
\* in a row have failed, never because of failures that had a successful
\* connection between them.
C19_ProcessorFatal ==
    \A g \in Runs : Exhausted(g) => a_streak[g] >= a_attempts
C19_HikvisionFatal ==
    h_error = MaxReconnectText => h_streak >= h_attempts
C19_FatalAfterConsecutive == C19_ProcessorFatal /\ C19_HikvisionFatal

(***************************************************************************)
(* RTSPStreamManager.get_stream and cleanup, and what the threads of the   *)
(* streams do to is_active and cap.                                        *)
(***************************************************************************)
GInit ==
    /\ g_streams = NoStream
    /\ g_made = 0
    /\ g_pc = [i \in StreamIds |-> "none"]
    /\ g_active = [i \in StreamIds |-> FALSE]
    /\ g_cap = [i \in StreamIds |-> FALSE]
    /\ g_stopped = [i \in StreamIds |-> FALSE]

\* get_stream(camera_id, rtsp_url, reconnect): the registered stream when it
\* is_active and reconnect is False; otherwise a new RTSPStream, whose
\* constructor starts its connection thread, takes the entry
GetStream(reconnect) ==
    /\ IF g_streams # NoStream /\ ~reconnect /\ g_active[g_streams]
       THEN UNCHANGED gvars
       ELSE /\ g_made < MaxStreams
            /\ g_made' = g_made + 1
            /\ g_streams' = g_made + 1
            /\ g_pc' = [g_pc EXCEPT ![g_made + 1] = "connecting"]
            /\ UNCHANGED <<g_active, g_cap, g_stopped>>
    /\ UNCHANGED NotManager

\* _connect_thread: the stream opened and a test frame was read; is_active
\* is set and the frame capture thread started, which leaves its loop at
\* once when `stopping` is set
GConnected(i) ==
    /\ g_pc[i] = "connecting"
    /\ g_active' = [g_active EXCEPT ![i] = TRUE]
    /\ g_cap' = [g_cap EXCEPT ![i] = TRUE]
    /\ g_pc' = [g_pc EXCEPT ![i] = IF g_stopped[i] THEN "ended" ELSE "capturing"]
    /\ UNCHANGED <<g_streams, g_made, g_stopped>>
    /\ UNCHANGED NotManager

\* _connect_thread: no backend opened the stream, or no test frame
GConnectFailed(i) ==
    /\ g_pc[i] = "connecting"
    /\ g_active' = [g_active EXCEPT ![i] = FALSE]
    /\ g_pc' = [g_pc EXCEPT ![i] = "ended"]
    /\ UNCHANGED <<g_streams, g_made, g_cap, g_stopped>>
    /\ UNCHANGED NotManager

\* _frame_capture_thread: more than five read errors; _reconnect() stops the
\* stream with reconnect=True and connects again
GReconnect(i) ==
    /\ g_pc[i] = "capturing"
    /\ g_active' = [g_active EXCEPT ![i] = FALSE]
    /\ g_cap' = [g_cap EXCEPT ![i] = FALSE]
    /\ g_pc' = [g_pc EXCEPT ![i] = "connecting"]
    /\ UNCHANGED <<g_streams, g_made, g_stopped>>
    /\ UNCHANGED NotManager

\* cleanup(): stop() on the registered stream, whose entry is deleted; the
\* capture thread sees `stopping`, a connection thread goes on
GCleanup ==
    /\ g_streams # NoStream
    /\ g_stopped' = [g_stopped EXCEPT ![g_streams] = TRUE]
    /\ g_active' = [g_active EXCEPT ![g_streams] = FALSE]
    /\ g_cap' = [g_cap EXCEPT ![g_streams] = FALSE]
    /\ g_pc' = [g_pc EXCEPT ![g_streams] = IF @ = "capturing" THEN "ended" ELSE @]
    /\ g_streams' = NoStream
    /\ UNCHANGED g_made
    /\ UNCHANGED NotManager

GNext ==
    \/ \E reconnect \in BOOLEAN : GetStream(reconnect)
    \/ \E i \in StreamIds : GConnected(i)
    \/ \E i \in StreamIds : GConnectFailed(i)
    \/ \E i \in StreamIds : GReconnect(i)
    \/ GCleanup

\* C27: get-or-create: whatever get_stream calls with reconnect=False were
\* made for the camera id, at most one of its streams has a live connection
\* or capture thread or an opened connection, and every stream that lost
\* the registry entry was stopped.
C27_Live(i) == g_pc[i] \in {"connecting", "capturing"} \/ g_cap[i]
C27_OneLiveStream ==
    /\ Cardinality({i \in StreamIds : C27_Live(i)}) <= 1
    /\ \A i \in StreamIds : (g_pc[i] # "none" /\ g_streams # i) => g_stopped[i]

(***************************************************************************)
(* rtsp_api.py: get_or_create_processor, cleanup_processors and            *)
(* stop_advanced_processor on one key, and the capture thread of each      *)
(* stream.  No lock is taken by any of the three, so each statement that   *)
(* reads or writes active_processors is a step.                            *)
(***************************************************************************)
KInit ==
    /\ k_res \in Resolutions
    /\ k_stop = "none"
    /\ k_entry = NoProcessor
    /\ k_made = 0
    /\ k_running = [i \in ProcessorIds |-> FALSE]
    /\ k_thread = [i \in ProcessorIds |-> FALSE]
    /\ k_cpc = [c \in Callers |-> "idle"]
    /\ k_cproc = [c \in Callers |-> NoProcessor]
    /\ k_ret = [c \in Callers |-> NoProcessor]
    /\ k_clean = "idle"

\* get_or_create_processor: `key in active_processors and
\* active_processors[key].running`; the registered stream is returned
KCheck(c) ==
    /\ k_cpc[c] = "idle"
    /\ IF k_entry # NoProcessor /\ k_running[k_entry]
       THEN /\ k_ret' = [k_ret EXCEPT ![c] = k_entry]
            /\ k_cpc' = [k_cpc EXCEPT ![c] = "done"]
       ELSE /\ k_cpc' = [k_cpc EXCEPT ![c] = "create"]
            /\ UNCHANGED k_ret
    /\ UNCHANGED <<k_entry, k_made, k_running, k_thread, k_cproc, k_clean>>
    /\ UNCHANGED <<k_res, k_stop>>
    /\ UNCHANGED NotApi

\* get_or_create_processor: RTSPStream(...) and processor.start(), which
\* opens the capture and, when it is opened, starts the capture thread
KCreate(c, opened) ==
    /\ k_cpc[c] = "create"
    /\ k_made < MaxProcessors
    /\ k_made' = k_made + 1
    /\ k_cproc' = [k_cproc EXCEPT ![c] = k_made + 1]
    /\ k_running' = [k_running EXCEPT ![k_made + 1] = opened]
    /\ k_thread' = [k_thread EXCEPT ![k_made + 1] = opened]
    /\ k_cpc' = [k_cpc EXCEPT ![c] = "store"]
    /\ UNCHANGED <<k_entry, k_ret, k_clean>>
    /\ UNCHANGED <<k_res, k_stop>>
    /\ UNCHANGED NotApi

\* get_or_create_processor: `active_processors[key] = processor` and return
KStore(c) ==
    /\ k_cpc[c] = "store"
    /\ k_entry' = k_cproc[c]
    /\ k_ret' = [k_ret EXCEPT ![c] = k_cproc[c]]
    /\ k_cpc' = [k_cpc EXCEPT ![c] = "done"]
    /\ UNCHANGED <<k_made, k_running, k_thread, k_cproc, k_clean>>
    /\ UNCHANGED <<k_res, k_stop>>
    /\ UNCHANGED NotApi

\* _capture_frames: too many consecutive errors; running is cleared, the
\* capture released and the thread ends
KThreadEnds(i) ==
    /\ k_thread[i]
    /\ k_running' = [k_running EXCEPT ![i] = FALSE]
    /\ k_thread' = [k_thread EXCEPT ![i] = FALSE]
    /\ UNCHANGED <<k_entry, k_made, k_cpc, k_cproc, k_ret, k_clean>>
    /\ UNCHANGED <<k_res, k_stop>>
    /\ UNCHANGED NotApi

\* cleanup_processors: `if not active_processors[key].running`
KCleanupCheck ==
    /\ k_clean = "idle"
    /\ k_entry # NoProcessor
    /\ ~k_running[k_entry]
    /\ k_clean' = "delete"
    /\ UNCHANGED <<k_entry, k_made, k_running, k_thread, k_cpc, k_cproc, k_ret>>
    /\ UNCHANGED <<k_res, k_stop>>
    /\ UNCHANGED NotApi

\* cleanup_processors: `del active_processors[key]`
KCleanupDelete ==
    /\ k_clean = "delete"
    /\ k_entry' = NoProcessor
    /\ k_clean' = "idle"
    /\ UNCHANGED <<k_made, k_running, k_thread, k_cpc, k_cproc, k_ret>>
    /\ UNCHANGED <<k_res, k_stop>>
    /\ UNCHANGED NotApi

\* stop_advanced_processor for the url: the key it looks up is in
\* active_processors when the one entry was stored under that key; stop() on
\* the registered stream, whose thread is joined, and
\* `del active_processors[key]`, or 'Stream not found'
KStopProcessor ==
    /\ k_clean = "idle"
    /\ IF k_entry # NoProcessor /\ StopKey(k_res) = ProcessorKey(k_res)
       THEN /\ k_running' = [k_running EXCEPT ![k_entry] = FALSE]
            /\ k_thread' = [k_thread EXCEPT ![k_entry] = FALSE]
            /\ k_entry' = NoProcessor
            /\ k_stop' = "stopped"
       ELSE /\ k_stop' = "not_found"
            /\ UNCHANGED <<k_entry, k_running, k_thread>>
    /\ UNCHANGED <<k_made, k_cpc, k_cproc, k_ret, k_clean, k_res>>
    /\ UNCHANGED NotApi

KNext ==
    \/ \E c \in Callers : KCheck(c)
    \/ \E c \in Callers, opened \in BOOLEAN : KCreate(c, opened)
    \/ \E c \in Callers : KStore(c)
    \/ \E i \in ProcessorIds : KThreadEnds(i)
    \/ KCleanupCheck
    \/ KCleanupDelete
    \/ KStopProcessor

\* C28: the registry operations are atomic with respect to each other: once
\* the calls in progress have returned, every running RTSPStream is the one
\* registered in active_processors, so that one capture thread at most runs
\* for the key, and two calls that both returned a running stream returned
\* the same one.
C28_AtRest == k_clean = "idle" /\ \A c \in Callers : k_cpc[c] \in {"idle", "done"}
C28_RegistryAtomic ==
    C28_AtRest =>
        /\ \A i \in ProcessorIds : k_running[i] => k_entry = i
        /\ Cardinality({i \in ProcessorIds : k_thread[i]}) <= 1
        /\ \A c, d \in Callers :
              (k_ret[c] # NoProcessor /\ k_ret[d] # NoProcessor
                 /\ k_running[k_ret[c]] /\ k_running[k_ret[d]])
                  => k_ret[c] = k_ret[d]

(***************************************************************************)
(* Specifications: one per component, the other components at rest in one  *)
(* configuration.                                                          *)
(***************************************************************************)
PAtRest ==
    /\ PInit
    /\ p_workers = [s \in Stages |-> 1]
    /\ p_cap = 1
    /\ p_adaptive
    /\ p_offer = 0
    /\ p_runs = 1
HAtRest == HInit /\ h_attempts = 1

AAtRest ==
    /\ AInit
    /\ a_limit = [starts |-> 1, opens |-> 1, reads |-> 1]
    /\ a_attempts = 1
    /\ a_buffer = 1

KAtRest == KInit /\ k_res = "medium"

MAtRest == MInit /\ m_exists = [c \in Cameras |-> TRUE] /\ m_limit = 0

\* the pipeline, any configuration
PipelineInit == PInit /\ p_offer = MaxFrames /\ p_runs = 1 /\ AAtRest /\ MAtRest /\ RInit /\ HAtRest /\ GInit /\ KAtRest
SpecPipeline == PipelineInit /\ [][PNext]_vars

\* the processor through starts, stops and reconnections, one frame offered
ProcessorInit ==
    /\ AInit
    /\ a_limit = [starts |-> 2, opens |-> MaxOpens, reads |-> 1]
    /\ a_buffer = 1
    /\ PAtRest
    /\ MAtRest
    /\ RInit
    /\ HAtRest /\ GInit /\ KAtRest
SpecProcessor == ProcessorInit /\ [][ANext]_vars

\* the frames of a processor started once, the stream reopened at most once
FramesInit ==
    /\ AInit
    /\ a_limit = [starts |-> 1, opens |-> 2, reads |-> MaxReads]
    /\ PAtRest
    /\ MAtRest
    /\ RInit
    /\ HAtRest /\ GInit /\ KAtRest
SpecFrames == FramesInit /\ [][ANext]_vars

\* the processor stopped and started again, two frames offered
RestartInit ==
    /\ AInit
    /\ a_limit = [starts |-> 2, opens |-> 2, reads |-> MaxReads]
    /\ a_attempts = MaxReconnect
    /\ a_buffer = 1
    /\ PAtRest
    /\ MAtRest
    /\ RInit
    /\ HAtRest /\ GInit /\ KAtRest
SpecRestart == RestartInit /\ [][ANext]_vars

\* the monitor: calls for two cameras against their polling threads
MonitorInit == MInit /\ m_limit = MaxCalls /\ PAtRest /\ AAtRest /\ RInit /\ HAtRest /\ GInit /\ KAtRest
SpecMonitor == MonitorInit /\ [][MNext]_vars

\* the ingestion path: the two components share no state, so a behaviour runs
\* one of them, any pipeline or the processor with its frames
IngestInit ==
    \/ /\ PInit
       /\ p_offer = MaxFrames
       /\ p_runs = 1
       /\ AInit
       /\ a_limit = [starts |-> 0, opens |-> 1, reads |-> 1]
       /\ a_attempts = 1
       /\ a_buffer = 1
       /\ MAtRest
       /\ RInit
       /\ HAtRest /\ GInit /\ KAtRest
    \/ /\ PAtRest
       /\ AInit
       /\ a_limit = [starts |-> 1, opens |-> 2, reads |-> MaxReads]
       /\ MAtRest
       /\ RInit
       /\ HAtRest /\ GInit /\ KAtRest
IngestNext == PNext \/ ANext
SpecIngest == IngestInit /\ [][IngestNext]_vars

\* one RTSPStream: its threads, a get_frame caller and the operator's stop()
StreamInit == RInit /\ PAtRest /\ AAtRest /\ MAtRest /\ HAtRest /\ GInit /\ KAtRest
SpecStream == StreamInit /\ [][RNext]_vars

\* the pipeline from start() to the return of stop(), two frames submitted
LifecycleInit ==
    /\ PInit
    /\ p_offer = 2
    /\ p_runs = 1
    /\ p_cap = 1
    /\ AAtRest
    /\ MAtRest
    /\ RInit
    /\ HAtRest /\ GInit /\ KAtRest
SpecLifecycle == LifecycleInit /\ [][PLifeNext]_vars

\* the pipeline started, stopped and started again, two frames submitted
PipeRestartInit ==
    /\ PInit
    /\ p_offer = 2
    /\ p_runs = 2
    /\ p_cap = 1
    /\ AAtRest
    /\ MAtRest
    /\ RInit
    /\ HAtRest /\ GInit /\ KAtRest
SpecPipeRestart == PipeRestartInit /\ [][PLifeNext]_vars

\* the hikvision processor: one start, connection losses and reconnections
HikvisionInit ==
    HInit /\ PAtRest /\ AAtRest /\ MAtRest /\ RInit /\ GInit /\ KAtRest
SpecHikvision == HikvisionInit /\ [][HNext]_vars

\* the stream manager: get_stream and cleanup calls for one camera id
ManagerInit ==
    GInit /\ PAtRest /\ AAtRest /\ MAtRest /\ RInit /\ HAtRest /\ KAtRest
SpecManager == ManagerInit /\ [][GNext]_vars

\* rtsp_api: two callers of get_or_create_processor for one key
ApiInit ==
    KInit /\ PAtRest /\ AAtRest /\ MAtRest /\ RInit /\ HAtRest /\ GInit
SpecApi == ApiInit /\ [][KNext]_vars

(***************************************************************************)
(* Cancellation.  A behaviour runs one of the three components: a pipeline *)
(* started once, a processor started once, or the monitor of one camera    *)
(* row.  Every thread that can take a step eventually takes one: a stage   *)
(* function, a frame read, a sleep and a save return.                      *)
(***************************************************************************)
CancelInit ==
    \/ /\ PInit
       /\ p_workers = [s \in Stages |-> 1]
       /\ p_adaptive
       /\ p_offer = 2
       /\ p_runs = 1
       /\ p_cap = 1
       /\ AInit
       /\ a_limit = [starts |-> 0, opens |-> 1, reads |-> 1]
       /\ a_attempts = 1
       /\ a_buffer = 1
       /\ MAtRest
       /\ RInit /\ HAtRest /\ GInit /\ KAtRest
    \/ /\ PInit
       /\ p_workers = [s \in Stages |-> 1]
       /\ p_adaptive
       /\ p_offer = 0
       /\ p_runs = 0
       /\ p_cap = 1
       /\ \/ /\ AInit
             /\ a_limit = [starts |-> 1, opens |-> 2, reads |-> 1]
             /\ a_buffer = 1
             /\ MAtRest
          \/ /\ AInit
             /\ a_limit = [starts |-> 0, opens |-> 1, reads |-> 1]
             /\ a_attempts = 1
             /\ a_buffer = 1
             /\ MInit
             /\ m_exists = [c \in Cameras |-> c = 1]
             /\ m_limit = MaxCalls - 1
       /\ RInit /\ HAtRest /\ GInit /\ KAtRest

CancelNext == PLifeNext \/ ANext \/ MNext

\* the steps of one thread
InputThread(g) == InputGet(g) \/ InputPut(g) \/ InputExit(g)
StageThread(w) ==
    WGet(w) \/ WReturn(w) \/ WNone(w) \/ WRaise(w) \/ WAdaptGet(w) \/ WAdaptPut(w)
        \/ WExit(w)
CaptureThread(g) ==
    ACLoop(g) \/ ACOpenOk(g) \/ ACOpenFail(g) \/ ACBackoff(g) \/ ACInner(g)
        \/ ACReadFrame(g) \/ ACReadFail(g) \/ ACReadRaise(g)
ProcessingThread(g) == APCheck(g) \/ APGet(g) \/ APTimeout(g) \/ APPut(g)
PollingThread(c, n) ==
    TBegin(c, n) \/ TMark(c, n) \/ TLoop(c, n) \/ TRecord(c, n) \/ TStatus(c, n)
        \/ TFlag(c, n) \/ TDbError(c, n) \/ TRaise(c, n) \/ TFailed(c, n)
        \/ TDbFail(c, n)

\* every step of a thread changes the position of that thread
CancelFair ==
    /\ \A g \in Gens : WF_p_ipc(InputThread(g))
    /\ \A w \in Slots : WF_p_wpc(StageThread(w))
    /\ \A g \in Runs : WF_a_cpc(CaptureThread(g)) /\ WF_a_ppc(ProcessingThread(g))
    /\ \A c \in Cameras, n \in Instances : WF_m_tpc(PollingThread(c, n))
SpecCancel == CancelInit /\ [][CancelNext]_vars /\ CancelFair

C33_PipelineOver ==
    /\ \A g \in Gens : p_ipc[g] \in {"none", "ended"}
    /\ \A w \in Slots : p_wpc[w] \in {"none", "ended"}
C33_ProcessorOver ==
    \A g \in Runs : (a_cpc[g] = "none" \/ CaptureOver(g)) /\ a_ppc[g] \in {"none", "ended"}
C33_PollingOver(c, n) == m_tpc[c][n] \in {"done", "crashed"}

\* C33: once stop() of a pipeline or of a processor has cleared is_running
\* and no start() follows, every input worker, stage worker, capture thread
\* and processing thread eventually terminates; once stop_camera has set
\* the event of a polling thread, that thread eventually terminates.
C33_Cancellation ==
    /\ (p_runs = 1 /\ p_stop = "joining") ~> C33_PipelineOver
    /\ (a_limit.starts = 1 /\ a_stop = "join_capture") ~> C33_ProcessorOver
    /\ \A c \in Cameras, n \in Instances : m_evset[c][n] ~> C33_PollingOver(c, n)
C33_Witness ==
    /\ C33_PipelineOver
    /\ p_ipc[1] = "ended"
    /\ \A w \in Slots : Spawned(w) => p_wpc[w] = "ended"
    /\ p_calls = 2
    /\ ~p_running
C33_ProcessorWitness ==
    /\ C33_ProcessorOver
    /\ a_cpc[1] = "ended" /\ a_ppc[1] = "ended"
    /\ ~a_running
C33_MonitorWitness ==
    \E n \in Instances :
        /\ m_evset[1][n]
        /\ m_tpc[1][n] = "done"
        /\ m_pulled[1][n] = 1


(***************************************************************************)
(* C34.  In every snapshot get_camera_status returns for a camera that has *)
(* a record, status 'error' comes with an error message: the message the   *)
(* polling thread's handler wrote is still in the snapshot after the       *)
(* processor's get_status() was merged into it.                            *)
(***************************************************************************)
C34_ErrorHasMessage ==
    (m_ret.op = "get_camera_status" /\ m_ret.val = "error") => m_ret.error # Null

(***************************************************************************)
(* C35.  Between the calls of start_camera and stop_camera the five maps   *)
(* active_processors, active_pipelines, camera_threads, camera_status and  *)
(* stop_events have the same keys, also after a start_camera that failed.  *)
(* Both methods run under self.lock and are one step each, so no call is   *)
(* in progress in any state.                                               *)
(***************************************************************************)
C35_Keys(c) ==
    << m_procs[c] # NoInstance, m_pipes[c] # NoInstance, m_threads[c] # NoInstance,
       m_status[c] # Absent, m_events[c] # NoInstance >>
C35_SameKeys ==
    \A c \in Cameras : C35_Keys(c) \in {<<TRUE, TRUE, TRUE, TRUE, TRUE>>,
                                        <<FALSE, FALSE, FALSE, FALSE, FALSE>>}

(***************************************************************************)
(* C36.  A stream made by get_or_create_processor(url, resolution), for    *)
(* any resolution, is stopped and removed by a stop request for the same   *)
(* url: a request that finds a stream of the url registered succeeds, and  *)
(* after a successful request no stream of the url is running or           *)
(* registered.  The requests considered are those made while no call of    *)
(* get_or_create_processor is in progress and no stream runs unregistered. *)
(***************************************************************************)
C36_Quiet ==
    /\ \A c \in Callers : k_cpc[c] \in {"idle", "done"}
    /\ \A i \in ProcessorIds : k_running[i] => k_entry = i
C36_StopStep ==
    (KStopProcessor /\ C36_Quiet) =>
        /\ k_entry # NoProcessor => k_stop' = "stopped"
        /\ k_stop' = "stopped" =>
              /\ k_entry' = NoProcessor
              /\ \A i \in ProcessorIds : ~k_running'[i]
C36_StopRemoves == [][C36_StopStep]_vars


====
